---- MODULE Spec2Model ----
(***************************************************************************)
(* State-machine model of src/regenerate_all_data.py: the minute loop      *)
(* (fill, drain application and retirement, candidate selection, courier   *)
(* search, ticket emission, snapshot) followed by the unreported-drain     *)
(* injector.                                                               *)
(*                                                                         *)
(* Units.  Volumes are integers in millilitres (1 L = 1000), rates in      *)
(* millilitres per minute, random factors in per mille.  Times are minutes *)
(* since start_date (2024-10-30T00:00Z); the script formats every          *)
(* timestamp with '%Y-%m-%dT%H:%M:%SZ' and parses it back with             *)
(* datetime.fromisoformat, which is lossless for the minute-aligned UTC    *)
(* times it produces, so a timestamp is represented by its minute number.  *)
(* round(x, 2) of a litre amount is Round2: the nearest multiple of 10 ml. *)
(***************************************************************************)
EXTENDS Integers, Sequences, FiniteSets, TLC

VARIABLES
    pc,                  \* position in the script
    total_minutes,       \* int((end_date - start_date) / 60) + 1
    cauldrons,           \* cauldron id -> max_volume (cauldrons.json)
    network_edges,       \* sequence of edges of cauldrons.json
    witches_by_shift,    \* shift -> sequence of courier ids
    fill_rates,          \* cauldron id -> fill rate
    rng_seed,            \* 0: the generator is seeded from OS entropy
    unseeded_draws,      \* number of draws taken while rng_seed = 0
    noise_draw,          \* the fill-noise draws sampled for this run
    free_draws,          \* dispatches left whose draws are sampled freely
    current_time,
    current_levels,
    historical_data,     \* sequence of snapshots, timestamp = index - 1
    transport_tickets,
    unreported_drains,
    added_unreported_drains,
    witch_schedules,
    pending_drains,
    cauldrons_needing_collection,
    collections_per_cauldron,
    ticket_counter,
    target_unreported_count,
    attempts,
    ledger,              \* history variable: what the loop did per drain
    script,              \* the script that runs
    hist,                \* historical_data.json: 'data' of an extension script
    tickets_data,        \* transport_tickets.json: 'transport_tickets'
    unreported_data,     \* unreported_drains.json: 'unreported_drains'
    loaded,              \* history variable: the three lists as loaded
    new_start,
    new_end,
    new_historical_data,
    new_tickets,
    new_unreported_drains,
    selected_unreported, \* extend_data.py: the spots chosen for the drains
    unreported_count,
    travel_lookup,       \* history variable: the last call of get_travel_time
    ticket_events,       \* optimize_witches.py: the parsed tickets, sorted
    opt_witches,         \* optimize_witches.py: witches, the schedule of each
    current_witch_idx,
    ticket_assignments,  \* ticket_id -> witch_id, in order of assignment
    next_event           \* position of "for ticket in ticket_events"

vars == <<pc, total_minutes, cauldrons, network_edges, witches_by_shift,
          fill_rates, rng_seed, unseeded_draws, noise_draw, free_draws,
          current_time, current_levels, historical_data, transport_tickets,
          unreported_drains, added_unreported_drains, witch_schedules,
          pending_drains, cauldrons_needing_collection,
          collections_per_cauldron, ticket_counter, target_unreported_count,
          attempts, ledger, script, hist, tickets_data, unreported_data,
          loaded, new_start, new_end, new_historical_data, new_tickets,
          new_unreported_drains, selected_unreported, unreported_count,
          travel_lookup, ticket_events, opt_witches, current_witch_idx,
          ticket_assignments, next_event>>

\* what only the extension scripts read or write
extension_vars == <<script, hist, tickets_data, unreported_data, loaded,
                    new_start, new_end, new_historical_data, new_tickets,
                    new_unreported_drains, selected_unreported,
                    unreported_count>>

\* what only optimize_witches.py reads or writes
optimizer_vars == <<ticket_events, opt_witches, current_witch_idx,
                    ticket_assignments, next_event>>

\* ------------------------------------------------------------ bounds
ShortHorizon == 100
MidHorizon == 160
LongHorizon == 402
MaxFreeDraws == 2
MaxAttempts == 2
AdjacentHorizon == 440

\* ------------------------------------------------- program constants
UNLOAD_TIME == 15
MAX_CAPACITY_PER_WITCH == 100000
MIN_BUFFER_BETWEEN_TRIPS == 30
REDUCED_BUFFER_009 == 15
DEFAULT_TRAVEL_TIME == 30
MIN_GAP_MINUTES == 30
MIN_NET_DRAIN == 15000
MIN_DURATION == 15
MAX_DURATION == 180
SEED_MAIN == 12345
SEED_INJECT == 54321
CAULDRON_009 == 9
MARKET == 0

Min(a, b) == IF a <= b THEN a ELSE b
Max(a, b) == IF a >= b THEN a ELSE b
Abs(a) == IF a >= 0 THEN a ELSE 0 - a

\* round(x, 2) on a litre amount held in millilitres
Round2(x) == ((x + 5) \div 10) * 10

Nodes == DOMAIN cauldrons

\* fill_rates, collection_thresholds and drain_rates of the script, for
\* cauldron_001 .. cauldron_012 (ids 1 .. 12)
FillRateTable ==
    <<80, 65, 90, 70, 75, 55, 95, 80, 180, 75, 90, 65>>
collection_thresholds ==
    <<15, 18, 18, 15, 18, 20, 15, 18, 120, 20, 15, 18>>
drain_rates ==
    <<350, 320, 380, 330, 360, 300, 390, 340, 450, 350, 370, 310>>

\* fraction (per mille) of a capacity given in whole litres
Frac(max_vol, permille) == (max_vol \div 1000) * permille

\* ------------------------------------------------------ travel model
Put(f, k, v) == [x \in (DOMAIN f) \cup {k} |-> IF x = k THEN v ELSE f[x]]

\* a travel_times dictionary that holds each edge under its (from, to) key only
RECURSIVE BuildTravelTimesOneWay(_, _)
BuildTravelTimesOneWay(edges, i) ==
    IF i = 0 THEN <<>>
    ELSE Put(BuildTravelTimesOneWay(edges, i - 1),
             <<edges[i].from, edges[i].to>>, edges[i].travel_time_minutes)

\* the travel_times dictionary after the first i edges have been entered
RECURSIVE BuildTravelTimes(_, _)
BuildTravelTimes(edges, i) ==
    IF i = 0 THEN <<>>
    ELSE LET e == edges[i]
             fwd == Put(BuildTravelTimes(edges, i - 1),
                        <<e.from, e.to>>, e.travel_time_minutes)
         IN  Put(fwd, <<e.to, e.from>>, e.travel_time_minutes)

travel_times == BuildTravelTimes(network_edges, Len(network_edges))

get_travel_time(from_id, to_id) ==
    IF from_id = to_id THEN 0
    ELSE IF <<from_id, to_id>> \in DOMAIN travel_times
         THEN travel_times[<<from_id, to_id>>]
         ELSE DEFAULT_TRAVEL_TIME

\* ------------------------------------------------------------ shifts
\* a shift table whose first shift starts after hour 0
get_witch_shift_late(timestamp) ==
    LET hour == (timestamp \div 60) % 24
    IN  IF 0 < hour /\ hour < 8 THEN 1
        ELSE IF 8 <= hour /\ hour < 16 THEN 2
        ELSE 3

get_witch_shift(timestamp) ==
    LET hour == (timestamp \div 60) % 24
    IN  IF 0 <= hour /\ hour < 8 THEN 1
        ELSE IF 8 <= hour /\ hour < 16 THEN 2
        ELSE 3

\* period_progress < 0.50, with period_progress =
\* (current_time - start_date) / (end_date - start_date)
BeforeMidpoint(t) == 2 * t < total_minutes - 1

\* ------------------------------------------------ availability checks
\* an availability check that asks for the buffer twice after an earlier trip
is_witch_available_twice_buffered(witch_id, start_time, end_time, schedules, cauldron_id, t) ==
    LET buffer_minutes ==
            IF cauldron_id = CAULDRON_009 /\ BeforeMidpoint(t)
            THEN REDUCED_BUFFER_009 ELSE MIN_BUFFER_BETWEEN_TRIPS
        buffer_start == start_time - buffer_minutes
        buffer_end == end_time + buffer_minutes
    IN  \A i \in 1..Len(schedules[witch_id]) :
            LET event == schedules[witch_id][i]
            IN  buffer_end <= event.departure_from_market
                \/ buffer_start >= event.unload_complete + MIN_BUFFER_BETWEEN_TRIPS

is_witch_available(witch_id, start_time, end_time, schedules, cauldron_id, t) ==
    LET buffer_minutes ==
            IF cauldron_id = CAULDRON_009 /\ BeforeMidpoint(t)
            THEN REDUCED_BUFFER_009 ELSE MIN_BUFFER_BETWEEN_TRIPS
        buffer_start == start_time - buffer_minutes
        buffer_end == end_time + buffer_minutes
    IN  \A i \in 1..Len(schedules[witch_id]) :
            LET event == schedules[witch_id][i]
            IN  buffer_end <= event.departure_from_market
                \/ buffer_start >= event.unload_complete

is_cauldron_available(cauldron_id, collection_start, collection_end, tickets) ==
    \A i \in 1..Len(tickets) :
        LET ticket == tickets[i]
            existing_start == ticket.collection_start_timestamp
            existing_end == ticket.collection_timestamp
        IN  ticket.cauldron_id = cauldron_id =>
              /\ (collection_end <= existing_start \/ collection_start >= existing_end)
              /\ (existing_end < collection_start =>
                    collection_start - existing_end >= MIN_GAP_MINUTES)
              /\ (~(existing_end < collection_start) /\ collection_end < existing_start =>
                    existing_start - collection_end >= MIN_GAP_MINUTES)

\* ------------------------------------------------------- fill step
\* cauldrons_being_drained
BeingDrained(pd, t) ==
    {pd[i].cauldron_id : i \in {j \in 1..Len(pd) : pd[j].start <= t /\ t <= pd[j].end}}

\* a fill step that fills a cauldron whether or not it is being drained
FillLevelWhileDraining(cauldron_id, current_level, draining, nd) ==
    LET fill_amount ==
            (((fill_rates[cauldron_id] * nd.base) \div 1000) * nd.spike) \div 1000
        jitter == (current_level * nd.jitter) \div 10000
    IN  Max(0, Min(current_level + fill_amount + jitter, cauldrons[cauldron_id]))

\* new_level of the fill step for one cauldron; nd holds the draws
\* base_noise_factor, spike_factor (per mille) and the jitter factor (1/10000)
FillLevel(cauldron_id, current_level, draining, nd) ==
    IF draining THEN current_level
    ELSE LET fill_amount ==
                 (((fill_rates[cauldron_id] * nd.base) \div 1000) * nd.spike) \div 1000
             jitter == (current_level * nd.jitter) \div 10000
         IN  Max(0, Min(current_level + fill_amount + jitter, cauldrons[cauldron_id]))

\* ------------------------------------------------------ drain ledger
\* round(max(0, level - net_drain / duration), 2), computed exactly
DrainedLevelUnclamped(level, net_drain, duration) ==
    ((level * duration - net_drain + 5 * duration) \div (10 * duration)) * 10

DrainedLevel(level, net_drain, duration) ==
    IF level * duration - net_drain <= 0 THEN 0
    ELSE ((level * duration - net_drain + 5 * duration) \div (10 * duration)) * 10

\* pending_drains.remove(drain): the first equal element goes
RECURSIVE RemoveFirst(_, _)
RemoveFirst(seq, x) ==
    IF seq = <<>> THEN <<>>
    ELSE IF Head(seq) = x THEN Tail(seq)
    ELSE <<Head(seq)>> \o RemoveFirst(Tail(seq), x)

\* what a loop over pending_drains itself would visit while the body removes
\* the expired drains: the element after each removed one is skipped
RECURSIVE LiveIteration(_, _, _)
LiveIteration(pd, t, i) ==
    IF i > Len(pd) THEN <<>>
    ELSE IF t > pd[i].end
         THEN <<pd[i]>> \o LiveIteration(RemoveFirst(pd, pd[i]), t, i + 1)
         ELSE <<pd[i]>> \o LiveIteration(pd, t, i + 1)

VisitedDrainsLive(pd, t) == LiveIteration(pd, t, 1)

\* the drains the loop body visits: "for drain in list(pending_drains)"
VisitedDrains(pd, t) == pd

\* one pass of the drain loop body; st = [ml, cl, pd, lg] are minute_levels,
\* current_levels, pending_drains and the ledger.  The forced reduction of a
\* cauldron at capacity needs new_level >= current_cauldron_level, which a
\* positive net_drain / duration excludes, so that branch never runs.
DrainBody(drain, st, t) ==
    LET c == drain.cauldron_id
        active == drain.start <= t /\ t <= drain.end
        applies == active /\ drain.duration > 0 /\ drain.net_drain > 0
        level == st.ml[c]
        new_level == DrainedLevel(level, drain.net_drain, drain.duration)
        ml1 == IF applies THEN [st.ml EXCEPT ![c] = new_level] ELSE st.ml
        cl1 == IF applies THEN [st.cl EXCEPT ![c] = new_level] ELSE st.cl
        expired == t > drain.end
        pd1 == IF expired THEN RemoveFirst(st.pd, drain) ELSE st.pd
        old == st.lg[drain.id]
        lg1 == [st.lg EXCEPT ![drain.id] =
                  [old EXCEPT
                     !.applied = IF applies THEN old.applied + (level - new_level)
                                 ELSE old.applied,
                     !.n_applied = IF applies THEN old.n_applied + 1 ELSE old.n_applied,
                     !.clamped = old.clamped
                                 \/ (applies /\ level * drain.duration - drain.net_drain < 0),
                     !.last_applied = IF applies THEN t ELSE old.last_applied,
                     !.retired_at = IF expired THEN t ELSE old.retired_at]]
    IN  [ml |-> ml1, cl |-> cl1, pd |-> pd1, lg |-> lg1]

RECURSIVE ApplyDrains(_, _, _, _)
ApplyDrains(visited, i, st, t) ==
    IF i > Len(visited) THEN st
    ELSE ApplyDrains(visited, i + 1, DrainBody(visited[i], st, t), t)

\* ------------------------------------------------- dispatch: priority
\* the first cascade of the priority computation (level bands and, for a
\* cauldron without collections, the low-level bands)
BandPriority(cauldron_id, level, colls) ==
    LET max_vol == cauldrons[cauldron_id]
        threshold == Frac(max_vol, collection_thresholds[cauldron_id])
        has_no_collections == colls[cauldron_id] = 0
    IN  IF level >= Frac(max_vol, 990) THEN 100
        ELSE IF level >= Frac(max_vol, 900) THEN 98
        ELSE IF level >= Frac(max_vol, 800) THEN 95
        ELSE IF level >= Frac(max_vol, 700) THEN 90
        ELSE IF level >= threshold THEN 85
        ELSE IF level * 100 >= threshold * 85 THEN 80
        ELSE IF level * 100 >= threshold * 70 THEN 75
        ELSE IF level * 100 >= threshold * 55 THEN 70
        ELSE IF has_no_collections /\ level >= Frac(max_vol, 450) THEN 70
        ELSE IF has_no_collections /\ level >= Frac(max_vol, 350) THEN 65
        ELSE IF has_no_collections /\ level >= Frac(max_vol, 300) THEN 60
        ELSE 0

\* the "additional triggers", which overwrite the band priority when they fire
Priority(cauldron_id, level, colls, t) ==
    LET max_vol == cauldrons[cauldron_id]
        band == BandPriority(cauldron_id, level, colls)
    IN  IF cauldron_id = CAULDRON_009
        THEN IF ~BeforeMidpoint(t)
             THEN IF level >= Frac(max_vol, 600) THEN 88
                  ELSE IF level >= Frac(max_vol, 550) THEN 83
                  ELSE IF level >= Frac(max_vol, 500) THEN 78
                  ELSE band
             ELSE IF level >= Frac(max_vol, 30) THEN 99
                  ELSE IF level >= Frac(max_vol, 25) THEN 98
                  ELSE IF level >= Frac(max_vol, 20) THEN 97
                  ELSE IF level >= Frac(max_vol, 15) THEN 96
                  ELSE IF level >= Frac(max_vol, 10) THEN 95
                  ELSE IF level >= Frac(max_vol, 8) THEN 94
                  ELSE IF level >= Frac(max_vol, 5) THEN 93
                  ELSE band
        ELSE IF level >= Frac(max_vol, 25) THEN 99
             ELSE IF level >= Frac(max_vol, 20) THEN 98
             ELSE IF level >= Frac(max_vol, 15) THEN 97
             ELSE IF level >= Frac(max_vol, 10) THEN 96
             ELSE IF level >= Frac(max_vol, 8) THEN 95
             ELSE IF level >= Frac(max_vol, 5) THEN 94
             ELSE IF level >= Frac(max_vol, 3) THEN 93
             ELSE band

\* a candidate tuple (priority, cauldron_id, level)
Cand(p, c, l) == [priority |-> p, cauldron_id |-> c, level |-> l]

\* tuple order of Python on (priority, cauldron_id, level); ids are distinct
CandGreater(a, b) ==
    \/ a.priority > b.priority
    \/ (a.priority = b.priority /\ a.cauldron_id > b.cauldron_id)

\* candidates_for_collection.sort(reverse=True)
RECURSIVE SortDescending(_)
SortDescending(S) ==
    IF S = {} THEN <<>>
    ELSE LET top == CHOOSE a \in S : \A b \in S \ {a} : CandGreater(a, b)
         IN  <<top>> \o SortDescending(S \ {top})

\* at_capacity_cauldrons + regular_candidates, sorted
SortedCandidates(ml, cnc, colls, t) ==
    SortDescending(
        {Cand(Priority(c, ml[c], colls, t), c, ml[c]) :
            c \in {n \in Nodes : n \notin DOMAIN cnc
                                 /\ Priority(n, ml[n], colls, t) > 0}})

\* first index i >= 2 with similar priority and clearly fewer collections
SwapIndex(cands, colls) ==
    LET top == cands[1]
        hits == {i \in 2..Len(cands) :
                    /\ cands[i].priority >= top.priority - 5
                    /\ colls[cands[i].cauldron_id] < colls[top.cauldron_id] - 2}
    IN  IF hits = {} THEN 0 ELSE CHOOSE i \in hits : \A j \in hits : i <= j

Swapped(cands, i) ==
    IF i = 0 THEN cands
    ELSE [k \in 1..Len(cands) |->
            IF k = 1 THEN cands[i] ELSE IF k = i THEN cands[1] ELSE cands[k]]

\* a balancing pass whose zero-collections rule re-inserts the head of the
\* list
HeadOfList(cands, colls) == cands[1]

\* max(zero_collections, key=priority): the first of the best in list order
BestZero(cands, colls) ==
    LET zeros == {i \in 1..Len(cands) : colls[cands[i].cauldron_id] = 0}
        best == CHOOSE i \in zeros :
                    \A j \in zeros :
                        \/ cands[i].priority > cands[j].priority
                        \/ (cands[i].priority = cands[j].priority /\ i <= j)
    IN  cands[best]

\* the balancing pass; only the head of the result is used afterwards
Balanced(cands, colls) ==
    IF Len(cands) <= 1 THEN cands
    ELSE LET swapped == Swapped(cands, SwapIndex(cands, colls))
             has_zero == \E i \in 1..Len(swapped) :
                             colls[swapped[i].cauldron_id] = 0
         IN  IF has_zero /\ colls[swapped[1].cauldron_id] > 0
                /\ BestZero(swapped, colls).priority >= 60
             THEN <<BestZero(swapped, colls)>> \o swapped
             ELSE swapped

\* candidates_for_collection of tick t after sorting and balancing
CandidatesAt(ml, t) ==
    Balanced(SortedCandidates(ml, cauldrons_needing_collection,
                              collections_per_cauldron, t),
             collections_per_cauldron)

\* ------------------------------------------- dispatch: courier search
\* max(witch_schedules[w], key=unload_complete).unload_complete
LastUnload(events) ==
    LET i == CHOOSE k \in 1..Len(events) :
                 \A j \in 1..Len(events) :
                     events[k].unload_complete >= events[j].unload_complete
    IN  events[i].unload_complete

RECURSIVE MaxOver(_, _)
MaxOver(S, floor) ==
    IF S = {} THEN floor
    ELSE LET x == CHOOSE y \in S : TRUE
         IN  MaxOver(S \ {x}, Max(floor, x))

\* earliest_departure without the inter-trip buffer after the last unload
earliest_departure_unbuffered(w, cauldron_id, t, travel_to, schedules, tickets) ==
    LET after_trip ==
            IF Len(schedules[w]) > 0
            THEN Max(t, LastUnload(schedules[w]))
            ELSE t
        min_departures ==
            {tickets[i].collection_timestamp + MIN_GAP_MINUTES - travel_to :
                i \in {j \in 1..Len(tickets) : tickets[j].cauldron_id = cauldron_id}}
    IN  MaxOver(min_departures, after_trip)

\* earliest_departure for courier w and the selected cauldron
earliest_departure(w, cauldron_id, t, travel_to, schedules, tickets) ==
    LET after_trip ==
            IF Len(schedules[w]) > 0
            THEN Max(t, LastUnload(schedules[w]) + MIN_BUFFER_BETWEEN_TRIPS)
            ELSE t
        min_departures ==
            {tickets[i].collection_timestamp + MIN_GAP_MINUTES - travel_to :
                i \in {j \in 1..Len(tickets) : tickets[j].cauldron_id = cauldron_id}}
    IN  MaxOver(min_departures, after_trip)

\* collection_percentage: a draw u (per mille of the range) in the range
\* that applies to the cauldron at time t
collection_percentage(cauldron_id, t, u) ==
    IF cauldron_id = CAULDRON_009 /\ ~BeforeMidpoint(t)
    THEN 350 + (100 * u) \div 1000
    ELSE 500 + (100 * u) \div 1000

\* a cap on the net amount that ignores the fill during the collection
max_net_drain_ignoring_fill(fill_rate, net_drain_rate) ==
    MAX_CAPACITY_PER_WITCH

\* MAX_CAPACITY_PER_WITCH / (1 + fill_rate / net_drain_rate)
max_net_drain_for_capacity(fill_rate, net_drain_rate) ==
    (MAX_CAPACITY_PER_WITCH * net_drain_rate) \div (net_drain_rate + fill_rate)

\* max(15, min(180, int(amount / net_drain_rate)))
collection_duration(amount, net_drain_rate) ==
    Max(MIN_DURATION, Min(MAX_DURATION, amount \div net_drain_rate))

\* the net amount before the duration is known; dr holds the draws: pct
\* (position in the percentage range), est (estimated_duration), extra (the
\* uniform(15, 40) top-up)
NetAmount(cauldron_id, level_at_collection, t, dr) ==
    LET amount_to_collect ==
            Min((level_at_collection * collection_percentage(cauldron_id, t, dr.pct))
                    \div 1000,
                MAX_CAPACITY_PER_WITCH)
        fill_during_estimated == fill_rates[cauldron_id] * dr.est
        topped == IF amount_to_collect <= fill_during_estimated
                  THEN fill_during_estimated + dr.extra
                  ELSE amount_to_collect
        floored == Max(MIN_NET_DRAIN, Min(topped, level_at_collection))
    IN  Min(floored, max_net_drain_for_capacity(fill_rates[cauldron_id],
                                                drain_rates[cauldron_id]))

\* duration and gross amount of a net amount, with the final safety check
Collected(fill_rate, net_drain_rate, net) ==
    LET duration1 == collection_duration(net, net_drain_rate)
        over == net + fill_rate * duration1 > MAX_CAPACITY_PER_WITCH
        actual_drain == IF over
                        THEN max_net_drain_for_capacity(fill_rate, net_drain_rate)
                        ELSE net
        duration == IF over THEN collection_duration(actual_drain, net_drain_rate)
                    ELSE duration1
    IN  [actual_drain |-> actual_drain,
         collection_duration |-> duration,
         gross_drain |-> actual_drain + fill_rate * duration]

\* net amount, duration and gross amount of an extraction
Extraction(cauldron_id, level, travel_to, t, dr) ==
    Collected(fill_rates[cauldron_id], drain_rates[cauldron_id],
              NetAmount(cauldron_id,
                        Min(level + fill_rates[cauldron_id] * travel_to,
                            cauldrons[cauldron_id]),
                        t, dr))

\* the trip of courier w that leaves at departure and extracts ex, with the
\* two availability checks
TripFrom(w, cauldron_id, t, departure, travel_to, travel_back, ex, schedules, tickets) ==
    LET collection_start == departure + travel_to
        collection_end == collection_start + ex.collection_duration
        arrival_back == collection_end + travel_back
        unload_complete == arrival_back + UNLOAD_TIME
    IN  [witch_id |-> w,
         cauldron_id |-> cauldron_id,
         departure_from_market |-> departure,
         collection_start |-> collection_start,
         collection_end |-> collection_end,
         unload_complete |-> unload_complete,
         actual_drain |-> ex.actual_drain,
         gross_drain |-> ex.gross_drain,
         collection_duration |-> ex.collection_duration,
         feasible |->
             /\ is_witch_available(w, departure, unload_complete, schedules,
                                   cauldron_id, t)
             /\ is_cauldron_available(cauldron_id, collection_start,
                                      collection_end, tickets)]

\* the trip courier w would make for the selected cauldron
Trip(w, cauldron_id, level, t, dr, schedules, tickets) ==
    TripFrom(w, cauldron_id, t,
             earliest_departure(w, cauldron_id, t, get_travel_time(MARKET, cauldron_id),
                                schedules, tickets),
             get_travel_time(MARKET, cauldron_id),
             get_travel_time(cauldron_id, MARKET),
             Extraction(cauldron_id, level, get_travel_time(MARKET, cauldron_id), t, dr),
             schedules, tickets)

\* the draws of one courier iteration: pct, est, extra as in Extraction, and
\* susp = 0 (random.random() >= 0.12) or the underreport_factor in per mille
NominalDraw == [pct |-> 500, est |-> 75, extra |-> 27500, susp |-> 0]
FreeDraws == [pct : {0, 1000}, est : {60, 90}, extra : {15000, 40000},
              susp : {0, 750, 920}]
Draws(free) == IF free > 0 THEN FreeDraws ELSE {NominalDraw}

\* a courier search that turns to the roster of shift 2 when the current
\* shift has no courier
DispatchOutcomesNextShift(top, witches, t, draws, schedules, tickets) ==
    LET roster == IF witches = <<>> THEN witches_by_shift[2] ELSE witches
        T(i, dr) == Trip(roster[i], top.cauldron_id, top.level, t, dr,
                         schedules, tickets)
        taken == {p \in (1..Len(roster)) \X draws : T(p[1], p[2]).feasible}
    IN  IF taken = {} THEN {[found |-> FALSE]}
        ELSE {[found |-> TRUE, trip |-> T(p[1], p[2]), susp |-> p[2].susp] :
                 p \in taken}

\* a courier search that goes through the whole roster and keeps the last
\* courier whose trip passes both checks
DispatchOutcomesLastFeasible(top, witches, t, draws, schedules, tickets) ==
    LET T(i, dr) == Trip(witches[i], top.cauldron_id, top.level, t, dr,
                         schedules, tickets)
        taken == {p \in (1..Len(witches)) \X draws :
                     /\ T(p[1], p[2]).feasible
                     /\ \A j \in (p[1] + 1)..Len(witches) :
                            \E dr \in draws : ~T(j, dr).feasible}
    IN  IF taken = {} THEN {[found |-> FALSE]}
        ELSE {[found |-> TRUE, trip |-> T(p[1], p[2]), susp |-> p[2].susp] :
                 p \in taken}

\* outcomes of "for w in available_witches": the first courier whose trip
\* passes both checks is taken (break); every earlier courier was tried with
\* draws of its own and failed a check; without a feasible courier the loop
\* ends with witch_id = None
DispatchOutcomes(top, witches, t, draws, schedules, tickets) ==
    LET T(i, dr) == Trip(witches[i], top.cauldron_id, top.level, t, dr,
                         schedules, tickets)
        Fails(i) == \E dr \in draws : ~T(i, dr).feasible
        taken == {p \in (1..Len(witches)) \X draws :
                     /\ T(p[1], p[2]).feasible
                     /\ \A j \in 1..(p[1] - 1) : Fails(j)}
    IN  {[found |-> TRUE, trip |-> T(p[1], p[2]), susp |-> p[2].susp] : p \in taken}
        \cup (IF \A i \in 1..Len(witches) : Fails(i)
              THEN {[found |-> FALSE]} ELSE {})

\* ----------------------------------------------------- ticket emitter
\* a reported amount that divides by the underreport factor
ReportedAmountInflated(gross_drain, susp) ==
    IF susp = 0 THEN gross_drain ELSE (gross_drain * 1000) \div susp

ReportedAmount(gross_drain, susp) ==
    IF susp = 0 THEN gross_drain ELSE (gross_drain * susp) \div 1000

\* a ticket that carries the end of the collection as its start
TicketEndFirst(trip, susp, counter) ==
    [ticket_id |-> <<trip.collection_start \div 1440, counter>>,
     cauldron_id |-> trip.cauldron_id,
     collection_start_timestamp |-> trip.collection_end,
     collection_timestamp |-> trip.collection_start,
     amount_collected |-> Round2(ReportedAmount(trip.gross_drain, susp)),
     courier_id |-> trip.witch_id,
     status |-> "completed"]

\* a ticket that carries the shadow field whether or not it is suspicious
TicketWithShadow(trip, susp, counter) ==
    [ticket_id |-> <<trip.collection_start \div 1440, counter>>,
     cauldron_id |-> trip.cauldron_id,
     collection_start_timestamp |-> trip.collection_start,
     collection_timestamp |-> trip.collection_end,
     amount_collected |-> Round2(ReportedAmount(trip.gross_drain, susp)),
     courier_id |-> trip.witch_id,
     status |-> "completed",
     actual_amount_collected |-> Round2(trip.gross_drain)]
    @@ (IF susp = 0 THEN <<>>
        ELSE [is_suspicious |-> TRUE, suspicious_type |-> "underreported"])

Ticket(trip, susp, counter) ==
    LET base == [ticket_id |-> <<trip.collection_start \div 1440, counter>>,
                 cauldron_id |-> trip.cauldron_id,
                 collection_start_timestamp |-> trip.collection_start,
                 collection_timestamp |-> trip.collection_end,
                 amount_collected |-> Round2(ReportedAmount(trip.gross_drain, susp)),
                 courier_id |-> trip.witch_id,
                 status |-> "completed"]
    IN  IF susp = 0 THEN base
        ELSE base @@ [is_suspicious |-> TRUE,
                      suspicious_type |-> "underreported",
                      actual_amount_collected |-> Round2(trip.gross_drain)]

\* a schedule event that takes the departure as the start of the collection
ScheduleEventFromDeparture(trip) ==
    [departure_from_market |-> trip.departure_from_market,
     collection_start |-> trip.departure_from_market,
     collection_end |-> trip.collection_end,
     unload_complete |-> trip.unload_complete,
     cauldron_id |-> trip.cauldron_id,
     actual_drain |-> trip.actual_drain,
     gross_drain |-> trip.gross_drain,
     witch_id |-> trip.witch_id]

ScheduleEvent(trip) ==
    [departure_from_market |-> trip.departure_from_market,
     collection_start |-> trip.collection_start,
     collection_end |-> trip.collection_end,
     unload_complete |-> trip.unload_complete,
     cauldron_id |-> trip.cauldron_id,
     actual_drain |-> trip.actual_drain,
     gross_drain |-> trip.gross_drain,
     witch_id |-> trip.witch_id]

NoTime == 0 - 1000000

LedgerEntry(drain, by_dispatch, t, ticket_no) ==
    [cauldron_id |-> drain.cauldron_id, start |-> drain.start, end |-> drain.end,
     duration |-> drain.duration, net_drain |-> drain.net_drain,
     by_dispatch |-> by_dispatch, created_at |-> t, ticket_no |-> ticket_no,
     applied |-> 0, n_applied |-> 0, clamped |-> FALSE,
     last_applied |-> NoTime, retired_at |-> NoTime]

\* a cleanup that drops every mark at the end of the tick
UnmarkAll(cnc, t) == <<>>

\* "del cauldrons_needing_collection[c]" for every c whose collection ended
Unmark(cnc, t) ==
    [c \in {n \in DOMAIN cnc : ~(t >= cnc[n])} |-> cnc[c]]

\* lines 596-653: what the acceptance branch registers for one outcome of
\* the courier search at tick t; reg holds witch_schedules, pending_drains,
\* the ledger, transport_tickets, ticket_counter, collections_per_cauldron
\* and cauldrons_needing_collection
Register(reg, o, t) ==
    LET trip == o.trip
        c == trip.cauldron_id
        drain == [cauldron_id |-> c, start |-> trip.collection_start,
                  end |-> trip.collection_end,
                  duration |-> trip.collection_duration,
                  net_drain |-> trip.actual_drain,
                  id |-> Len(reg.lg) + 1]
    IN  [ws |-> [reg.ws EXCEPT ![trip.witch_id] = Append(@, ScheduleEvent(trip))],
         pd |-> Append(reg.pd, drain),
         lg |-> Append(reg.lg, LedgerEntry(drain, TRUE, t, Len(reg.tt) + 1)),
         tt |-> Append(reg.tt, Ticket(trip, o.susp, reg.tc + 1)),
         tc |-> reg.tc + 1,
         cpc |-> [reg.cpc EXCEPT ![c] = @ + 1],
         cnc |-> Put(reg.cnc, c, trip.collection_end)]

RECURSIVE RegisterAll(_, _, _)
RegisterAll(reg, accepted, t) ==
    IF accepted = <<>> THEN reg
    ELSE RegisterAll(Register(reg, Head(accepted), t), Tail(accepted), t)

\* a courier loop that goes on after its first acceptance and registers the
\* same trip once more
AcceptedWithoutBreak(o) == IF o.found THEN <<o, o>> ELSE <<>>

\* the acceptances of one courier loop: the first feasible courier is
\* accepted and "break" ends the loop
Accepted(o) == IF o.found THEN <<o>> ELSE <<>>

\* ------------------------------------------------------ one minute
\* a tick that takes its snapshot of minute_levels before the drain loop
AfterDrainsUnrecorded(t, cl0) ==
    [ApplyDrains(VisitedDrains(pending_drains, t), 1,
                 [ml |-> [c \in Nodes |-> Round2(cl0[c])], cl |-> cl0,
                  pd |-> pending_drains, lg |-> ledger], t)
        EXCEPT !.ml = [c \in Nodes |-> Round2(cl0[c])]]

\* lines 227-312 of tick t: the fill step and the drain loop; the result
\* holds minute_levels, current_levels, pending_drains and the ledger
AfterDrains(t, cl0) ==
    ApplyDrains(VisitedDrains(pending_drains, t), 1,
                [ml |-> [c \in Nodes |-> Round2(cl0[c])], cl |-> cl0,
                 pd |-> pending_drains, lg |-> ledger], t)

FillAndDrain(t) ==
    AfterDrains(t, [c \in Nodes |->
                      FillLevel(c, current_levels[c],
                                c \in BeingDrained(pending_drains, t), noise_draw)])

Tick ==
    /\ pc = "loop"
    /\ current_time <= total_minutes - 1
    /\ LET t == current_time
           st == FillAndDrain(t)
           cands == CandidatesAt(st.ml, t)
           witches == witches_by_shift[get_witch_shift(t)]
           outcomes == IF cands = <<>> THEN {[found |-> FALSE]}
                       ELSE DispatchOutcomes(cands[1], witches, t, Draws(free_draws),
                                             witch_schedules, transport_tickets)
       IN  \E o \in outcomes :
             \E reg \in {RegisterAll([ws |-> witch_schedules, pd |-> st.pd,
                                      lg |-> st.lg, tt |-> transport_tickets,
                                      tc |-> ticket_counter,
                                      cpc |-> collections_per_cauldron,
                                      cnc |-> cauldrons_needing_collection],
                                     Accepted(o), t)} :
                 /\ witch_schedules' = reg.ws
                 /\ pending_drains' = reg.pd
                 /\ ledger' = reg.lg
                 /\ ticket_counter' = reg.tc
                 /\ transport_tickets' = reg.tt
                 /\ collections_per_cauldron' = reg.cpc
                 /\ free_draws' = IF o.found /\ free_draws > 0 THEN free_draws - 1
                                  ELSE free_draws
                 /\ cauldrons_needing_collection' = Unmark(reg.cnc, t)
                 /\ current_levels' = st.cl
                 /\ historical_data' = Append(historical_data, st.ml)
                 /\ current_time' = t + 1
                 /\ pc' = IF t + 1 <= total_minutes - 1 THEN "loop" ELSE "plan"
    /\ UNCHANGED <<total_minutes, cauldrons, network_edges, witches_by_shift,
                   fill_rates, rng_seed, unseeded_draws, noise_draw,
                   unreported_drains, added_unreported_drains,
                   target_unreported_count, attempts>>
    /\ UNCHANGED extension_vars
    /\ UNCHANGED <<travel_lookup, optimizer_vars>>

\* ------------------------------------------------ start of the script
\* initial_levels: random.uniform(max_vol * 0.001, max_vol * 0.003) for
\* cauldron_009, random.uniform(max_vol * 0.20, max_vol * 0.40) otherwise;
\* the ends of each range are sampled
InitialLevelChoices(cauldron_id) ==
    IF cauldron_id = CAULDRON_009
    THEN {Frac(cauldrons[cauldron_id], 1), Frac(cauldrons[cauldron_id], 3)}
    ELSE {Frac(cauldrons[cauldron_id], 200), Frac(cauldrons[cauldron_id], 400)}

\* an unreported drain of unreported_drains.json entered into pending_drains
PreloadedDrain(drain_info, id) ==
    [cauldron_id |-> drain_info.cauldron_id,
     start |-> drain_info.drain_start_timestamp,
     end |-> drain_info.drain_end_timestamp,
     duration |-> drain_info.duration_minutes,
     net_drain |-> drain_info.estimated_amount_drained_liters,
     id |-> id]

\* lines 159-218: initial levels, pending_drains, random.seed(12345)
Initialize ==
    /\ pc = "start"
    /\ script = "regenerate_all_data"
    /\ \E levels \in [Nodes -> UNION {InitialLevelChoices(c) : c \in Nodes}] :
         /\ \A c \in Nodes : levels[c] \in InitialLevelChoices(c)
         /\ current_levels' = levels
    /\ unseeded_draws' = IF rng_seed = 0 THEN unseeded_draws + Cardinality(Nodes)
                         ELSE unseeded_draws
    /\ pending_drains' = [i \in 1..Len(unreported_drains) |->
                             PreloadedDrain(unreported_drains[i], i)]
    /\ ledger' = [i \in 1..Len(unreported_drains) |->
                     LedgerEntry(PreloadedDrain(unreported_drains[i], i),
                                 FALSE, NoTime, 0)]
    /\ rng_seed' = SEED_MAIN
    /\ current_time' = 0
    /\ pc' = "loop"
    /\ UNCHANGED <<total_minutes, cauldrons, network_edges, witches_by_shift,
                   fill_rates, noise_draw, free_draws, historical_data,
                   transport_tickets, unreported_drains, added_unreported_drains,
                   witch_schedules, cauldrons_needing_collection,
                   collections_per_cauldron, ticket_counter,
                   target_unreported_count, attempts>>
    /\ UNCHANGED extension_vars
    /\ UNCHANGED <<travel_lookup, optimizer_vars>>

\* ------------------------------------------------- anomaly injector
max_attempts == 2000
START_MARGIN == 200
MIN_CANDIDATE_LEVEL == 200000
MIN_EXPECTED_DROP == 25000
MIN_ACTUAL_DROP == 10000
MIN_NET_RATE == 300
FORCED_NET_DROP == 30000

\* a planning step that does not count the loaded records towards the
\* target
PlanInjectionFromEmpty ==
    /\ pc = "plan"
    /\ \E target \in {10, 11, 12} :
         /\ target_unreported_count' = target
         /\ IF target > 0
            THEN rng_seed' = SEED_INJECT /\ pc' = "inject"
            ELSE rng_seed' = rng_seed /\ pc' = "done"
    /\ unseeded_draws' = IF rng_seed = 0 THEN unseeded_draws + 1 ELSE unseeded_draws
    /\ added_unreported_drains' = <<>>
    /\ attempts' = 0
    /\ UNCHANGED <<total_minutes, cauldrons, network_edges, witches_by_shift,
                   fill_rates, noise_draw, free_draws, current_time,
                   current_levels, historical_data, transport_tickets,
                   unreported_drains, witch_schedules, pending_drains,
                   cauldrons_needing_collection, collections_per_cauldron,
                   ticket_counter, ledger>>
    /\ UNCHANGED extension_vars
    /\ UNCHANGED <<travel_lookup, optimizer_vars>>

\* lines 675-691: the target count and the seed of the injector
PlanInjection ==
    /\ pc = "plan"
    /\ \E target \in {10, 11, 12} :
         /\ target_unreported_count' = target
         /\ IF target - Len(unreported_drains) > 0
            THEN rng_seed' = SEED_INJECT /\ pc' = "inject"
            ELSE rng_seed' = rng_seed /\ pc' = "done"
    /\ unseeded_draws' = IF rng_seed = 0 THEN unseeded_draws + 1 ELSE unseeded_draws
    /\ added_unreported_drains' = unreported_drains
    /\ attempts' = 0
    /\ UNCHANGED <<total_minutes, cauldrons, network_edges, witches_by_shift,
                   fill_rates, noise_draw, free_draws, current_time,
                   current_levels, historical_data, transport_tickets,
                   unreported_drains, witch_schedules, pending_drains,
                   cauldrons_needing_collection, collections_per_cauldron,
                   ticket_counter, ledger>>
    /\ UNCHANGED extension_vars
    /\ UNCHANGED <<travel_lookup, optimizer_vars>>

TooClose(a_start, a_end, b_start, b_end) ==
    \/ ~(a_end <= b_start \/ a_start >= b_end)
    \/ (a_end < b_start /\ b_start - a_end < MIN_GAP_MINUTES)
    \/ (~(a_end < b_start) /\ b_end < a_start /\ a_start - b_end < MIN_GAP_MINUTES)

\* ticket_times holds the windows of all tickets, whatever their cauldron
overlaps_with_tickets(drain_start, drain_end, tickets) ==
    \E i \in 1..Len(tickets) :
        TooClose(drain_start, drain_end, tickets[i].collection_start_timestamp,
                 tickets[i].collection_timestamp)

overlaps_with_unreported_drains(drain_start, drain_end, cauldron_id, added_drains) ==
    \E i \in 1..Len(added_drains) :
        /\ added_drains[i].cauldron_id = cauldron_id
        /\ TooClose(drain_start, drain_end, added_drains[i].drain_start_timestamp,
                    added_drains[i].drain_end_timestamp)

\* max(0, round(level - drain_amount / drain_duration, 2))
AnomalyLevel(level, drain_amount, drain_duration) ==
    Max(0, ((level * drain_duration - drain_amount + 5 * drain_duration)
               \div (10 * drain_duration)) * 10)

\* an application that also lowers the first snapshot after the window
ApplyAnomalyPastEnd(history, cauldron_id, drain_start, drain_end, drain_amount, drain_duration) ==
    [k \in 1..Len(history) |->
        IF drain_start <= k - 1 /\ k - 1 <= drain_end + 1
        THEN [history[k] EXCEPT
                ![cauldron_id] = AnomalyLevel(@, drain_amount, drain_duration)]
        ELSE history[k]]

\* lines 882-896: the drain applied to every snapshot of the window
ApplyAnomaly(history, cauldron_id, drain_start, drain_end, drain_amount, drain_duration) ==
    [k \in 1..Len(history) |->
        IF drain_start <= k - 1 /\ k - 1 <= drain_end
        THEN [history[k] EXCEPT
                ![cauldron_id] = AnomalyLevel(@, drain_amount, drain_duration)]
        ELSE history[k]]

NoLevel == 0 - 1

\* the first snapshot level found by a scan with the given time filter
FirstLevel(history, cauldron_id, lo, hi) ==
    LET hits == {k \in 1..Len(history) : lo <= k - 1 /\ k - 1 <= hi}
    IN  IF hits = {} THEN NoLevel
        ELSE history[CHOOSE k \in hits : \A j \in hits : k <= j][cauldron_id]

\* the net amount first drawn for a cauldron at the given level; dr holds
\* the draws: start, pick (the cauldron), min_net_drop, u (position of
\* drain_amount in its range), extra (the uniform(10, 30) of the forced drop)
DrawnAmount(level, max_net, dr) ==
    LET max_drain == Min(Min(level \div 2, level - 15000), max_net)
    IN  Min(IF dr.min_net_drop < max_drain
            THEN dr.min_net_drop + ((max_drain - dr.min_net_drop) * dr.u) \div 1000
            ELSE Min(dr.min_net_drop, max_net),
            max_net)

\* the final safety check on the gross amount and the check of the net rate
\* (net_drain_per_min < 0.3), with the amount and duration they leave
Sized(fill_rate, net_drain_rate, max_net, amount0, extra) ==
    LET duration0 == collection_duration(amount0, net_drain_rate)
        over == amount0 + fill_rate * duration0 > MAX_CAPACITY_PER_WITCH
        amount1 == IF over THEN max_net ELSE amount0
        duration1 == IF over THEN collection_duration(amount1, net_drain_rate)
                     ELSE duration0
        slow == amount1 < MIN_NET_RATE * duration1
        amount == IF slow THEN Min(FORCED_NET_DROP + extra, max_net) ELSE amount1
        duration == IF slow THEN collection_duration(amount, net_drain_rate)
                    ELSE duration1
    IN  [amount |-> amount, duration |-> duration]

\* level_before, the application to the snapshots, level_after and the
\* verdict; applies is false when an earlier check has skipped the candidate
Verified(history, cauldron_id, level, drain_start, amount, duration, applies) ==
    LET drain_end == drain_start + duration
        before_window == FirstLevel(history, cauldron_id, drain_start - 4,
                                    drain_start - 1)
        level_before == IF before_window # NoLevel THEN before_window ELSE level
        after == IF applies
                 THEN ApplyAnomaly(history, cauldron_id, drain_start, drain_end,
                                   amount, duration)
                 ELSE history
        after_window == FirstLevel(after, cauldron_id, drain_end + 1, drain_end + 4)
        level_after == IF after_window # NoLevel THEN after_window
                       ELSE FirstLevel(after, cauldron_id, drain_end, drain_end)
        accepted == /\ applies
                    /\ level_after # NoLevel
                    /\ ~(level_before - level_after < MIN_ACTUAL_DROP)
    IN  [history |-> after,
         accepted |-> accepted,
         drain_info |-> [cauldron_id |-> cauldron_id,
                         drain_start_timestamp |-> drain_start,
                         drain_end_timestamp |-> drain_end,
                         estimated_amount_drained_liters |-> Round2(amount),
                         duration_minutes |-> duration]]

\* one candidate of the injector for the draws dr
Candidate(dr, history, tickets, added) ==
    LET cauldron_id == dr.pick
        level == history[dr.start + 1][cauldron_id]
        fill_rate == fill_rates[cauldron_id]
        net_drain_rate == drain_rates[cauldron_id]
        max_net == max_net_drain_for_capacity(fill_rate, net_drain_rate)
        amount0 == DrawnAmount(level, max_net, dr)
        end0 == dr.start + collection_duration(amount0, net_drain_rate)
        rejected_window ==
            \/ overlaps_with_tickets(dr.start, end0, tickets)
            \/ overlaps_with_unreported_drains(dr.start, end0, cauldron_id, added)
        sized == Sized(fill_rate, net_drain_rate, max_net, amount0, dr.extra)
        \* expected_total_drop = net_drain_per_min * drain_duration
        too_small == sized.amount < MIN_EXPECTED_DROP
    IN  Verified(history, cauldron_id, level, dr.start, sized.amount, sized.duration,
                 ~rejected_window /\ ~too_small)

\* the sampled values of random.randint(200, total_minutes - 200): the ends
\* of the range and every minute of the range at which the window of a
\* ticket or of a recorded unreported drain ends
StartChoices(tickets, added) ==
    {START_MARGIN, total_minutes - START_MARGIN}
    \cup {m \in {tickets[i].collection_timestamp : i \in 1..Len(tickets)}
                 \cup {added[i].drain_end_timestamp : i \in 1..Len(added)} :
              START_MARGIN <= m /\ m <= total_minutes - START_MARGIN}

InjectDraws ==
    [start : StartChoices(transport_tickets, added_unreported_drains),
     pick : Nodes,
     min_net_drop : {15000, 50000},
     u : {0, 1000},
     extra : {10000, 30000}]

\* a pass that leaves the counter as it is
CountNothing(n) == n

\* line 743: attempts += 1, the first statement of every pass
CountAttempt(n) == n + 1

\* one pass of "while len(added_unreported_drains) < target_unreported_count"
InjectAttempt ==
    /\ pc = "inject"
    /\ \/ attempts < MaxAttempts
       \/ attempts >= max_attempts
       \/ Len(added_unreported_drains) >= target_unreported_count
    /\ IF ~(Len(added_unreported_drains) < target_unreported_count)
       THEN /\ pc' = "done"
            /\ UNCHANGED <<attempts, historical_data, added_unreported_drains,
                           unreported_drains>>
       ELSE IF CountAttempt(attempts) > max_attempts
       THEN /\ pc' = "done"
            /\ attempts' = CountAttempt(attempts)
            /\ UNCHANGED <<historical_data, added_unreported_drains,
                           unreported_drains>>
       ELSE IF START_MARGIN > total_minutes - START_MARGIN
       THEN \* random.randint(200, total_minutes - 200) raises ValueError
            /\ pc' = "crashed"
            /\ attempts' = CountAttempt(attempts)
            /\ UNCHANGED <<historical_data, added_unreported_drains,
                           unreported_drains>>
       ELSE \E dr \in InjectDraws :
              LET snapshot == historical_data[dr.start + 1]
                  candidates == {c \in Nodes : snapshot[c] > MIN_CANDIDATE_LEVEL}
                  res == Candidate(dr, historical_data, transport_tickets,
                                   added_unreported_drains)
              IN  /\ pc' = "inject"
                  /\ attempts' = CountAttempt(attempts)
                  /\ IF candidates = {}
                     THEN UNCHANGED <<historical_data, added_unreported_drains,
                                      unreported_drains>>
                     ELSE /\ dr.pick \in candidates
                          /\ historical_data' = res.history
                          /\ added_unreported_drains' =
                                 IF res.accepted
                                 THEN Append(added_unreported_drains, res.drain_info)
                                 ELSE added_unreported_drains
                          /\ unreported_drains' =
                                 IF res.accepted
                                 THEN Append(unreported_drains, res.drain_info)
                                 ELSE unreported_drains
    /\ UNCHANGED <<total_minutes, cauldrons, network_edges, witches_by_shift,
                   fill_rates, rng_seed, unseeded_draws, noise_draw, free_draws,
                   current_time, current_levels, transport_tickets,
                   witch_schedules, pending_drains, cauldrons_needing_collection,
                   collections_per_cauldron, ticket_counter,
                   target_unreported_count, ledger>>
    /\ UNCHANGED extension_vars
    /\ UNCHANGED <<travel_lookup, optimizer_vars>>

\* a draw of one pass that the pass rejects without rewriting the history:
\* no cauldron above 200 L (line 767) or one of the "continue" paths that
\* precede line 885
RejectedUnchanged(dr) ==
    LET candidates == {c \in Nodes :
                          historical_data[dr.start + 1][c] > MIN_CANDIDATE_LEVEL}
    IN  \/ candidates = {}
        \/ /\ dr.pick \in candidates
           /\ LET res == Candidate(dr, historical_data, transport_tickets,
                                   added_unreported_drains)
              IN  ~res.accepted /\ res.history = historical_data

\* the passes MaxAttempts + 1 .. max_attempts of a run in which each of them
\* takes the same rejected draw: each pass executes "attempts += 1" (line
\* 743) and "continue", so the state after them differs in attempts only
InjectRejectedAttempts ==
    /\ pc = "inject"
    /\ attempts = MaxAttempts
    /\ Len(added_unreported_drains) < target_unreported_count
    /\ START_MARGIN <= total_minutes - START_MARGIN
    /\ \E dr \in InjectDraws : RejectedUnchanged(dr)
    /\ attempts' = max_attempts
    /\ UNCHANGED <<pc, total_minutes, cauldrons, network_edges, witches_by_shift,
                   fill_rates, rng_seed, unseeded_draws, noise_draw, free_draws,
                   current_time, current_levels, historical_data,
                   transport_tickets, unreported_drains,
                   added_unreported_drains, witch_schedules, pending_drains,
                   cauldrons_needing_collection, collections_per_cauldron,
                   ticket_counter, target_unreported_count, ledger>>
    /\ UNCHANGED extension_vars
    /\ UNCHANGED <<travel_lookup, optimizer_vars>>

\* ------------------------------------------------------------ outputs
\* lines 942-1010: the three output dictionaries are built, then the three
\* files are written, then the summary is printed. min() over the tickets
\* (line 967) raises ValueError when there is no ticket, before any file is
\* written
SaveOutputs ==
    /\ pc = "done"
    /\ pc' = IF transport_tickets = <<>> THEN "output_error" ELSE "saved"
    /\ UNCHANGED <<total_minutes, cauldrons, network_edges, witches_by_shift,
                   fill_rates, rng_seed, unseeded_draws, noise_draw, free_draws,
                   current_time, current_levels, historical_data,
                   transport_tickets, unreported_drains,
                   added_unreported_drains, witch_schedules, pending_drains,
                   cauldrons_needing_collection, collections_per_cauldron,
                   ticket_counter, target_unreported_count, attempts, ledger>>
    /\ UNCHANGED extension_vars
    /\ UNCHANGED <<travel_lookup, optimizer_vars>>

\* ------------------------------------------------------------ inputs
Edge(a, b, m) == [from |-> a, to |-> b, travel_time_minutes |-> m]

\* the fill-noise draws: random.uniform(0.98, 1.02), the spike factor
\* (1.0, or random.uniform(0.97, 1.03) with probability 0.01) and the jitter
\* factor random.uniform(-0.0005, 0.0005); one run samples one triple
NominalNoise == [base |-> 1000, spike |-> 1000, jitter |-> 0]
LowNoise == [base |-> 980, spike |-> 970, jitter |-> 0 - 5]
HighNoise == [base |-> 1020, spike |-> 1030, jitter |-> 5]

Drain(c, s, e, amount) ==
    [cauldron_id |-> c, drain_start_timestamp |-> s, drain_end_timestamp |-> e,
     estimated_amount_drained_liters |-> amount, duration_minutes |-> e - s]

Roster(s1, s2) == <<s1, s2, <<>>>>

AllWitches == UNION {{witches_by_shift[s][i] : i \in 1..Len(witches_by_shift[s])} :
                        s \in 1..3}

\* no call of get_travel_time has been recorded, and optimize_witches.py
\* has not run
NoOptimizer ==
    /\ travel_lookup = <<>>
    /\ ticket_events = <<>>
    /\ opt_witches = <<>>
    /\ current_witch_idx = 0
    /\ ticket_assignments = <<>>
    /\ next_event = 0

\* regenerate_all_data.py reads no history and no tickets
NoExtension ==
    /\ script = "regenerate_all_data"
    /\ hist = <<>>
    /\ tickets_data = <<>>
    /\ unreported_data = <<>>
    /\ loaded = <<>>
    /\ new_start = 0
    /\ new_end = 0
    /\ new_historical_data = <<>>
    /\ new_tickets = <<>>
    /\ new_unreported_drains = <<>>
    /\ selected_unreported = <<>>
    /\ unreported_count = 0

\* what every run starts from, given its inputs
Start(cfg) ==
    /\ pc = "start"
    /\ total_minutes = cfg.total
    /\ cauldrons = cfg.cauldrons
    /\ network_edges = cfg.edges
    /\ witches_by_shift = cfg.roster
    /\ fill_rates = [c \in DOMAIN cfg.cauldrons |-> FillRateTable[c]]
    /\ unreported_drains = cfg.preload
    /\ noise_draw = cfg.noise
    /\ free_draws = cfg.free
    /\ rng_seed = 0
    /\ unseeded_draws = 0
    /\ current_time = 0
    /\ current_levels = [c \in DOMAIN cfg.cauldrons |-> 0]
    /\ historical_data = <<>>
    /\ transport_tickets = <<>>
    /\ added_unreported_drains = <<>>
    /\ witch_schedules = [w \in AllWitches |-> <<>>]
    /\ pending_drains = <<>>
    /\ cauldrons_needing_collection = <<>>
    /\ collections_per_cauldron = [c \in DOMAIN cfg.cauldrons |-> 0]
    /\ ticket_counter = 0
    /\ target_unreported_count = 0
    /\ attempts = 0
    /\ ledger = <<>>
    /\ NoExtension
    /\ NoOptimizer

\* short runs: small cauldrons, every sampled input combined
ShortConfigs ==
    [total : {ShortHorizon},
     cauldrons : {(3 :> 100000) @@ (9 :> 100000), (7 :> 100000) @@ (12 :> 40000)},
     edges : {<<>>, <<Edge(MARKET, 3, 5), Edge(9, MARKET, 7), Edge(7, MARKET, 3)>>},
     roster : {Roster(<<"w1">>, <<>>), Roster(<<"w1", "w2">>, <<>>),
               Roster(<<>>, <<"w1">>)},
     preload : {<<>>},
     noise : {NominalNoise, LowNoise, HighNoise},
     free : {MaxFreeDraws}]

\* short runs that start from an existing unreported_drains.json
PreloadConfigs ==
    [total : {ShortHorizon},
     cauldrons : {(3 :> 100000) @@ (9 :> 100000)},
     edges : {<<>>},
     roster : {Roster(<<"w1">>, <<>>)},
     preload : {<<Drain(3, 40, 60, 6000)>>,
                <<Drain(3, 5, 20, 3000), Drain(9, 8, 20, 800)>>,
                <<Drain(9, 2, 12, 5000), Drain(3, 85, 120, 7000)>>},
     noise : {NominalNoise},
     free : {0, 1}]

\* runs in which one courier makes several trips before the midpoint
MidConfigs ==
    [total : {MidHorizon},
     cauldrons : {(3 :> 100000) @@ (9 :> 100000)},
     edges : {<<Edge(MARKET, 3, 5), Edge(9, MARKET, 7)>>},
     roster : {Roster(<<"w1">>, <<>>)},
     preload : {<<>>},
     noise : {NominalNoise},
     free : {0}]

\* long runs, on which the injector can work: nominal draws in the loop
LongConfigs ==
    [total : {LongHorizon},
     cauldrons : {(3 :> 1000000) @@ (9 :> 1000000)},
     edges : {<<>>},
     roster : {Roster(<<"w1">>, <<>>), Roster(<<>>, <<"w1">>)},
     preload : {<<>>, <<Drain(9, 10, 20, 800)>>},
     noise : {NominalNoise, LowNoise},
     free : {0}]

\* long runs in which the window of a ticket, or of a pre-loaded unreported
\* drain, ends at a minute the injector can draw as drain_start
AdjacentConfigs ==
    [total : {AdjacentHorizon},
     cauldrons : {(3 :> 1000000)},
     edges : {<<Edge(MARKET, 3, 60)>>},
     roster : {Roster(<<"w1">>, <<>>)},
     preload : {<<>>},
     noise : {NominalNoise, LowNoise},
     free : {0}]
    \cup
    [total : {LongHorizon},
     cauldrons : {(3 :> 1000000)},
     edges : {<<>>},
     roster : {Roster(<<>>, <<"w1">>)},
     preload : {<<Drain(3, 150, 200, 20000)>>},
     noise : {NominalNoise, LowNoise},
     free : {0}]

\* short runs without a courier in the only shift they see: nothing is
\* dispatched and the small cauldron_009 fills up
OverflowConfigs ==
    [total : {ShortHorizon},
     cauldrons : {(3 :> 100000) @@ (9 :> 5000)},
     edges : {<<>>},
     roster : {Roster(<<>>, <<"w1">>)},
     preload : {<<>>},
     noise : {NominalNoise},
     free : {0}]

\* an unreported_drains.json with n records, all of them after the end of
\* the run
RecordedDrains(n) ==
    [i \in 1..n |-> Drain(3, 1000 + 100 * i, 1020 + 100 * i, 20000)]

\* long runs that load nearly as many, or as many, unreported drains as the
\* injector targets
TargetConfigs ==
    [total : {LongHorizon},
     cauldrons : {(3 :> 1000000)},
     edges : {<<Edge(MARKET, 3, 60)>>},
     roster : {Roster(<<"w1">>, <<>>), Roster(<<>>, <<"w1">>)},
     preload : {RecordedDrains(9), RecordedDrains(10)},
     noise : {LowNoise},
     free : {0}]

Configs ==
    ShortConfigs \cup PreloadConfigs \cup MidConfigs \cup LongConfigs
    \cup AdjacentConfigs \cup OverflowConfigs \cup TargetConfigs

Init == \E cfg \in Configs : Start(cfg)

Next ==
    \/ Initialize \/ Tick \/ PlanInjection \/ InjectAttempt
    \/ InjectRejectedAttempts \/ SaveOutputs

Spec == Init /\ [][Next]_vars

\* the script is one sequential process: a pass of the injection loop that
\* can run does run
SpecFair ==
    /\ \E cfg \in AdjacentConfigs \cup TargetConfigs : Start(cfg)
    /\ [][Next]_vars
    /\ WF_vars(InjectAttempt \/ InjectRejectedAttempts)

\* ---------------------------------------------------------- scenarios
\* the loop entered at tick 0 with given levels and fill rates: nothing is
\* pre-loaded, no courier has a commitment, no cauldron is marked
ScenarioStart(cfg) ==
    /\ pc = "loop"
    /\ total_minutes = cfg.total
    /\ cauldrons = cfg.cauldrons
    /\ network_edges = cfg.edges
    /\ witches_by_shift = cfg.roster
    /\ fill_rates = cfg.fill
    /\ unreported_drains = <<>>
    /\ noise_draw = cfg.noise
    /\ free_draws = cfg.free
    /\ rng_seed = SEED_MAIN
    /\ unseeded_draws = Cardinality(DOMAIN cfg.cauldrons)
    /\ current_time = 0
    /\ current_levels = cfg.levels
    /\ historical_data = <<>>
    /\ transport_tickets = <<>>
    /\ added_unreported_drains = <<>>
    /\ witch_schedules = [w \in AllWitches |-> <<>>]
    /\ pending_drains = <<>>
    /\ cauldrons_needing_collection = <<>>
    /\ collections_per_cauldron = [c \in DOMAIN cfg.cauldrons |-> 0]
    /\ ticket_counter = 0
    /\ target_unreported_count = 0
    /\ attempts = 0
    /\ ledger = <<>>
    /\ NoExtension
    /\ NoOptimizer

TableRates(nodes) == [c \in nodes |-> FillRateTable[c]]

\* two cauldrons at capacity and one courier; in the last family a third
\* cauldron, below capacity, is present as well
TwoAtCapacityConfigs ==
    [total : {ShortHorizon},
     cauldrons : {(3 :> 100000) @@ (9 :> 100000)},
     edges : {<<>>, <<Edge(MARKET, 3, 5), Edge(9, MARKET, 7)>>},
     roster : {Roster(<<"w1">>, <<>>)},
     fill : {TableRates({3, 9})},
     levels : {(3 :> 100000) @@ (9 :> 100000), (3 :> 99500) @@ (9 :> 100000)},
     noise : {NominalNoise, LowNoise, HighNoise},
     free : {MaxFreeDraws}]
    \cup
    [total : {ShortHorizon},
     cauldrons : {(3 :> 100000) @@ (7 :> 100000) @@ (12 :> 40000)},
     edges : {<<>>},
     roster : {Roster(<<"w1">>, <<>>)},
     fill : {TableRates({3, 7, 12})},
     levels : {(3 :> 100000) @@ (7 :> 100000) @@ (12 :> 12000)},
     noise : {NominalNoise},
     free : {MaxFreeDraws}]

InitTwoAtCapacity == \E cfg \in TwoAtCapacityConfigs : ScenarioStart(cfg)

NextLoop == Tick

SpecTwoAtCapacity == InitTwoAtCapacity /\ [][NextLoop]_vars

\* one cauldron with fill_rate = 10, max_volume = 1000 and level 950, and
\* one courier in the shift of tick 0
SingleNodeConfigs ==
    [total : {ShortHorizon},
     cauldrons : {(3 :> 1000000), (9 :> 1000000)},
     edges : {<<>>, <<Edge(MARKET, 3, 5), Edge(9, MARKET, 7)>>},
     roster : {Roster(<<"w1">>, <<>>)},
     fill : {(3 :> 10000), (9 :> 10000)},
     levels : {(3 :> 950000), (9 :> 950000)},
     noise : {NominalNoise, LowNoise, HighNoise},
     free : {MaxFreeDraws}]

InitSingleNode ==
    \E cfg \in SingleNodeConfigs :
        /\ DOMAIN cfg.fill = DOMAIN cfg.cauldrons
        /\ DOMAIN cfg.levels = DOMAIN cfg.cauldrons
        /\ ScenarioStart(cfg)

SpecSingleNode == InitSingleNode /\ [][NextLoop]_vars

\* four cauldrons that all need a collection in tick 0, with a courier in
\* every shift
FullRoster == <<<<"w1">>, <<"w2">>, <<"w3">>>>

ContendedConfigs ==
    [total : {ShortHorizon},
     cauldrons : {(3 :> 100000) @@ (7 :> 100000) @@ (9 :> 100000) @@ (12 :> 40000)},
     edges : {<<>>, <<Edge(MARKET, 3, 5), Edge(9, MARKET, 7), Edge(7, MARKET, 3)>>},
     roster : {FullRoster, <<<<"w1", "w2">>, <<"w3">>, <<"w4">>>>},
     fill : {TableRates({3, 7, 9, 12})},
     levels : {(3 :> 40000) @@ (7 :> 100000) @@ (9 :> 5000) @@ (12 :> 12000),
               (3 :> 1000) @@ (7 :> 30000) @@ (9 :> 300) @@ (12 :> 39900)},
     noise : {NominalNoise, HighNoise},
     free : {MaxFreeDraws}]

InitContended == \E cfg \in ContendedConfigs : ScenarioStart(cfg)

SpecContended == InitContended /\ [][NextLoop]_vars

\* ------------------------------------------------- extension scripts
\* extend_data.py, extend_to_nov9.py and fix_nov8_9_data.py continue an
\* existing history. Timestamps are minutes since 2024-11-08 00:00 UTC.
ExtensionScripts == {"extend_data", "extend_to_nov9", "fix_nov8_9_data"}

\* fill_rates of the extension scripts, in mL per minute
ExtFillRateTable ==
    <<9926, 8197, 11792, 8437, 7483, 5031, 16068, 8468, 10729, 9175, 12310, 7402>>

\* collection_thresholds of the extension scripts, per mille of max_volume
ext_collection_thresholds ==
    <<750, 700, 800, 750, 750, 900, 750, 720, 700, 850, 780, 730>>

EXT_MAX_CAPACITY_PER_WITCH == 6000000
EXT_MIN_DRAIN == 50000
NOV9_END == 2879

\* is_witch_available of the extension scripts: a plain overlap test
ext_is_witch_available(witch_id, start_time, end_time, schedules) ==
    \A k \in 1..Len(schedules[witch_id]) :
        LET event == schedules[witch_id][k]
        IN  end_time <= event.departure_from_market
            \/ start_time >= event.unload_complete

\* the fill of one minute: new_level, not yet rounded
ExtFilled(cauldron_id, level) ==
    Min(level + (fill_rates[cauldron_id] * noise_draw.base) \div 1000,
        cauldrons[cauldron_id])

\* the fill loop: minute_levels gets the rounded level, current_levels the
\* unrounded one
ExtFill(st) ==
    [st EXCEPT !.ml = [c \in DOMAIN st.ml |-> Round2(ExtFilled(c, st.ml[c]))],
               !.cl = [c \in DOMAIN st.ml |-> ExtFilled(c, st.ml[c])]]

\* what one active drain takes off in one minute
\* extend_data.py: amount / (end - start) - fill rate
\* extend_to_nov9.py: net_drain / duration
\* fix_nov8_9_data.py: drain_amount / duration - fill rate
ExtDrainPerMinute(drain) ==
    IF script = "extend_data"
    THEN IF drain.end - drain.start > 0
         THEN drain.amount \div (drain.end - drain.start)
              - fill_rates[drain.cauldron_id]
         ELSE 0
    ELSE IF script = "extend_to_nov9"
    THEN IF drain.duration > 0 /\ drain.net_drain > 0
         THEN drain.net_drain \div drain.duration
         ELSE 0
    ELSE drain.amount \div drain.duration - fill_rates[drain.cauldron_id]

\* the level of the drained cauldron after one minute of the drain
ExtDrainedLevel(level, per_minute) ==
    IF script = "extend_to_nov9" THEN Round2(Max(0, level - per_minute))
    ELSE Max(0, level - per_minute)

\* the loop over list(pending_drains): active drains lower minute_levels and
\* current_levels, drains whose end has passed are removed
RECURSIVE ExtApplyDrains(_, _, _, _)
ExtApplyDrains(visited, i, st, t) ==
    IF i > Len(visited) THEN st
    ELSE LET drain == visited[i]
             c == drain.cauldron_id
             per_minute == ExtDrainPerMinute(drain)
             active == drain.start <= t /\ t <= drain.end /\ per_minute > 0
             lowered == ExtDrainedLevel(st.ml[c], per_minute)
         IN  ExtApplyDrains(visited, i + 1,
                 [st EXCEPT !.ml = IF active THEN [@ EXCEPT ![c] = lowered] ELSE @,
                            !.cl = IF active THEN [@ EXCEPT ![c] = lowered] ELSE @,
                            !.pd = IF t > drain.end THEN RemoveFirst(@, drain)
                                   ELSE @],
                 t)

ExtDrains(st, t) == ExtApplyDrains(st.pd, 1, st, t)

\* ------------------------------------- extension scripts: priorities
ExtThreshold(cauldron_id) ==
    Frac(cauldrons[cauldron_id], ext_collection_thresholds[cauldron_id])

RECURSIVE SumOver(_, _)
SumOver(f, S) ==
    IF S = {} THEN 0
    ELSE LET x == CHOOSE y \in S : TRUE IN f[x] + SumOver(f, S \ {x})

\* collections_per_cauldron[c] < avg * factor, with avg = sum(values) /
\* max(1, number of positive values) and factor given in tenths
BelowAverage(colls, cauldron_id, tenths) ==
    colls[cauldron_id] * 10
        * Max(1, Cardinality({c \in DOMAIN colls : colls[c] > 0}))
    < tenths * SumOver(colls, DOMAIN colls)

\* extend_to_nov9.py lines 165-185
Nov9Priority(cauldron_id, level, colls) ==
    LET max_vol == cauldrons[cauldron_id]
        threshold == ExtThreshold(cauldron_id)
    IN  IF level * 100 >= max_vol * 99 THEN 100
        ELSE IF level * 100 >= max_vol * 90 THEN 95
        ELSE IF level * 100 >= threshold * 95 THEN 85
        ELSE IF colls[cauldron_id] = 0 /\ level * 100 >= threshold * 80 THEN 75
        ELSE IF colls[cauldron_id] < 2 /\ level >= threshold THEN 65
        ELSE IF level >= threshold
             THEN IF BelowAverage(colls, cauldron_id, 13) THEN 55 ELSE 0
        ELSE IF colls[cauldron_id] = 0 /\ level * 100 >= threshold * 70 THEN 45
        ELSE 0

TARGET_COLLECTIONS_PER_CAULDRON == 3

\* fix_nov8_9_data.py lines 166-179
FixPriority(cauldron_id, level, colls) ==
    LET max_vol == cauldrons[cauldron_id]
        threshold == ExtThreshold(cauldron_id)
    IN  IF level * 100 >= max_vol * 99 THEN 100
        ELSE IF colls[cauldron_id] = 0 /\ level * 100 >= threshold * 85 THEN 80
        ELSE IF colls[cauldron_id] < TARGET_COLLECTIONS_PER_CAULDRON
                /\ level >= threshold THEN 50
        ELSE IF level >= threshold
             THEN IF BelowAverage(colls, cauldron_id, 15) THEN 30 ELSE 0
        ELSE 0

ExtPriority(cauldron_id, level, colls) ==
    IF script = "extend_to_nov9" THEN Nov9Priority(cauldron_id, level, colls)
    ELSE FixPriority(cauldron_id, level, colls)

\* sorted(top3, key=lambda x: (collections_per_cauldron[x[1]], -x[0])):
\* a stable sort, written as an insertion from the left
KeyLess(a, b, colls) ==
    \/ colls[a.cauldron_id] < colls[b.cauldron_id]
    \/ /\ colls[a.cauldron_id] = colls[b.cauldron_id]
       /\ a.priority > b.priority

RECURSIVE InsertByKey(_, _, _)
InsertByKey(sorted, x, colls) ==
    IF sorted = <<>> THEN <<x>>
    ELSE IF KeyLess(x, Head(sorted), colls) THEN <<x>> \o sorted
    ELSE <<Head(sorted)>> \o InsertByKey(Tail(sorted), x, colls)

RECURSIVE SortByKey(_, _)
SortByKey(seq, colls) ==
    IF seq = <<>> THEN <<>>
    ELSE InsertByKey(SortByKey(SubSeq(seq, 1, Len(seq) - 1), colls),
                     seq[Len(seq)], colls)

\* extend_to_nov9.py lines 191-203: the first three candidates are re-sorted
\* by collection count when their counts differ by more than two
Top3Balanced(cands, colls) ==
    IF Len(cands) <= 1 THEN cands
    ELSE LET n == Min(3, Len(cands))
             counts == {colls[cands[i].cauldron_id] : i \in 1..n}
             spread == \E a \in counts : \E b \in counts : a - b > 2
         IN  IF spread
             THEN SortByKey(SubSeq(cands, 1, n), colls)
                  \o SubSeq(cands, n + 1, Len(cands))
             ELSE cands

\* candidates_for_collection of extend_to_nov9.py and fix_nov8_9_data.py
ExtCandidates(ml, cnc, colls) ==
    LET sorted == SortDescending(
                      {Cand(ExtPriority(c, ml[c], colls), c, ml[c]) :
                          c \in {n \in DOMAIN ml :
                                    n \notin DOMAIN cnc
                                    /\ ExtPriority(n, ml[n], colls) > 0}})
    IN  IF script = "extend_to_nov9" THEN Top3Balanced(sorted, colls)
        ELSE sorted

\* -------------------------------------- extension scripts: dispatch
\* the draws of one dispatch: check is the duration drawn inside the courier
\* loop of extend_data.py, duration the one the trip is built with
ExtNominalDraw ==
    [check |-> 70, duration |-> 70, pct |-> 700, susp |-> 0, extra |-> 200000]

ExtFreeDraws ==
    IF script = "extend_data"
    THEN [check : {50, 90}, duration : {50, 90}, pct : {600, 800},
          susp : {0, 750}, extra : {200000}]
    ELSE IF script = "extend_to_nov9"
    THEN [check : {70}, duration : {55, 85}, pct : {600, 750},
          susp : {0, 920}, extra : {100000, 300000}]
    ELSE [check : {70}, duration : {55, 85}, pct : {600, 750},
          susp : {0, 750}, extra : {200000}]

ExtDraws(free) == IF free > 0 THEN ExtFreeDraws ELSE {ExtNominalDraw}

\* x * p / 1000 for a multiple p of ten, within 32 bits
PerMille(x, p) == (x \div 100) * (p \div 10)

\* the times of a trip that leaves the market at t
ExtTimes(cauldron_id, t, minutes) ==
    LET travel_to == get_travel_time(MARKET, cauldron_id)
        travel_back == get_travel_time(cauldron_id, MARKET)
        collection_start == t + travel_to
        collection_end == collection_start + minutes
    IN  [departure_from_market |-> t,
         collection_start |-> collection_start,
         collection_end |-> collection_end,
         unload_complete |-> collection_end + travel_back + UNLOAD_TIME]

\* actual_drain of extend_to_nov9.py
Nov9Drain(amount_to_collect, fill_during_collection, level_at_collection, extra) ==
    Max(EXT_MIN_DRAIN,
        Min(IF amount_to_collect <= fill_during_collection
            THEN fill_during_collection + extra
            ELSE amount_to_collect,
            level_at_collection))

\* actual_drain of the script that runs
ExtActualDrain(cauldron_id, level, minutes, dr) ==
    LET reached == level + fill_rates[cauldron_id]
                               * get_travel_time(MARKET, cauldron_id)
        fill_during_collection == fill_rates[cauldron_id] * minutes
    IN  IF script = "extend_to_nov9"
        THEN Nov9Drain(Min(PerMille(Min(reached, cauldrons[cauldron_id]), dr.pct),
                           EXT_MAX_CAPACITY_PER_WITCH),
                       fill_during_collection,
                       Min(reached, cauldrons[cauldron_id]), dr.extra)
        ELSE Max(0, Min(Min(PerMille(reached, dr.pct),
                            EXT_MAX_CAPACITY_PER_WITCH)
                        - fill_during_collection,
                        reached))

\* the first courier of the roster whose schedule is free from the departure
\* to unload_complete; <<>> when there is none
RECURSIVE FirstFree(_, _, _, _)
FirstFree(witches, start_time, end_time, schedules) ==
    IF witches = <<>> THEN <<>>
    ELSE IF ext_is_witch_available(Head(witches), start_time, end_time, schedules)
         THEN <<Head(witches)>>
         ELSE FirstFree(Tail(witches), start_time, end_time, schedules)

ExtTicket(cauldron_id, witch_id, times, actual_drain, susp, counter) ==
    LET base == [ticket_id |-> <<times.collection_start \div 1440, counter>>,
                 cauldron_id |-> cauldron_id,
                 collection_start_timestamp |-> times.collection_start,
                 collection_timestamp |-> times.collection_end,
                 amount_collected |-> Round2(IF susp = 0 THEN actual_drain
                                             ELSE PerMille(actual_drain, susp)),
                 courier_id |-> witch_id,
                 status |-> "completed",
                 notes |-> "Sequential collection"]
    IN  IF susp = 0 THEN base
        ELSE base @@ [is_suspicious |-> TRUE,
                      suspicious_type |-> "underreported",
                      actual_amount_collected |-> Round2(actual_drain)]

\* what a dispatch registers: the schedule event, the pending drain, the
\* ticket, the counters and the mark
ExtRegister(st, cauldron_id, witch_id, times, minutes, actual_drain, susp) ==
    [st EXCEPT
        !.ws = [@ EXCEPT ![witch_id] =
                   Append(@, times @@ [cauldron_id |-> cauldron_id,
                                       actual_drain |-> actual_drain,
                                       witch_id |-> witch_id])],
        !.pd = Append(@, [cauldron_id |-> cauldron_id,
                          start |-> times.collection_start,
                          end |-> times.collection_end,
                          amount |-> IF script = "extend_to_nov9"
                                     THEN actual_drain + fill_rates[cauldron_id]
                                                           * minutes
                                     ELSE actual_drain,
                          duration |-> minutes,
                          net_drain |-> actual_drain]),
        !.nt = Append(@, ExtTicket(cauldron_id, witch_id, times, actual_drain,
                                   susp, st.tc + 1)),
        !.tc = @ + 1,
        !.cpc = IF script = "extend_data" THEN @
                ELSE [@ EXCEPT ![cauldron_id] = @ + 1],
        !.cnc = Put(@, cauldron_id, times.collection_end)]

\* one dispatch attempt for cauldron_id at level
ExtDispatch(st, cauldron_id, level, t, dr) ==
    LET free == FirstFree(witches_by_shift[get_witch_shift(t)], t,
                          ExtTimes(cauldron_id, t,
                                   IF script = "extend_data" THEN dr.check
                                   ELSE dr.duration).unload_complete,
                          st.ws)
    IN  IF free = <<>> THEN st
        ELSE ExtRegister(st, cauldron_id, free[1],
                         ExtTimes(cauldron_id, t, dr.duration), dr.duration,
                         ExtActualDrain(cauldron_id, level, dr.duration, dr),
                         dr.susp)

\* extend_data.py lines 163-266: every cauldron over its threshold that is
\* not marked gets its own dispatch attempt, in the order of the levels
RECURSIVE ExtDispatchAll(_, _, _, _)
ExtDispatchAll(st, todo, t, dr) ==
    IF todo = {} THEN st
    ELSE LET c == CHOOSE n \in todo : \A m \in todo : n <= m
             due == (st.ml[c] >= ExtThreshold(c)
                     \/ st.ml[c] * 100 >= cauldrons[c] * 99)
                    /\ c \notin DOMAIN st.cnc
         IN  ExtDispatchAll(IF due THEN ExtDispatch(st, c, st.ml[c], t, dr) ELSE st,
                            todo \ {c}, t, dr)

\* extend_to_nov9.py lines 205-317, fix_nov8_9_data.py lines 186-272: the
\* first candidate gets one dispatch attempt
ExtDispatchTop(st, t, dr) ==
    LET cands == ExtCandidates(st.ml, st.cnc, st.cpc)
    IN  IF cands = <<>> THEN st
        ELSE ExtDispatch(st, cands[1].cauldron_id, cands[1].level, t, dr)

ExtUnmark(st, t) == [st EXCEPT !.cnc = Unmark(@, t)]

\* the body of "while current_time <= new_end" up to the snapshot
ExtMinute(st, t, dr) ==
    IF script = "extend_data"
    THEN ExtDrains(ExtUnmark(ExtDispatchAll(ExtFill(st), DOMAIN st.ml, t, dr), t), t)
    ELSE IF script = "extend_to_nov9"
    THEN ExtUnmark(ExtDispatchTop(ExtDrains(ExtFill(st), t), t, dr), t)
    ELSE ExtUnmark(ExtDispatchTop(ExtFill(ExtDrains(st, t)), t, dr), t)

\* ----------------------------------------- extension scripts: the loop
\* a counter that starts at 0 whatever the existing tickets hold
ExistingCounterIgnored(tickets) == 0

\* max([int(t['ticket_id'].split('_')[-1]) for t in tickets], default=0)
ExistingCounter(tickets) ==
    MaxOver({tickets[i].ticket_id[2] : i \in 1..Len(tickets)}, 0)

\* random.seed of the generation loop; extend_data.py never seeds
ExtLoopSeed ==
    IF script = "extend_to_nov9" THEN 78901
    ELSE IF script = "fix_nov8_9_data" THEN SEED_MAIN
    ELSE 0

\* random.seed of the unreported drains
ExtInjectSeed ==
    IF script = "extend_to_nov9" THEN 23456
    ELSE IF script = "fix_nov8_9_data" THEN SEED_INJECT
    ELSE 0

\* the variables of regenerate_all_data.py the extension scripts do not have
regenerate_vars == <<historical_data, transport_tickets, unreported_drains,
                     added_unreported_drains, target_unreported_count, ledger>>

\* the inputs of the run
input_vars == <<script, total_minutes, cauldrons, network_edges,
                witches_by_shift, fill_rates, noise_draw, loaded>>

\* a clock that starts at the timestamp of the last snapshot
NewStartAtLast(last_timestamp) == last_timestamp

\* new_start = last_timestamp + timedelta(minutes=1)
NewStart(last_timestamp) == last_timestamp + 1

\* from the loading of the files to the first pass of the loop: last_entry,
\* initial_levels, new_start, new_end, the counters and the seed
LoadExisting ==
    /\ pc = "start"
    /\ script \in ExtensionScripts
    /\ IF hist = <<>>
       THEN \* hist['data'][-1] raises IndexError
            /\ pc' = "crashed"
            /\ UNCHANGED <<new_start, new_end, current_levels, current_time,
                           ticket_counter, rng_seed>>
       ELSE LET last_entry == hist[Len(hist)]
                start == NewStart(last_entry.timestamp)
                end == IF script = "extend_to_nov9" THEN NOV9_END
                       ELSE start + total_minutes - 1
            IN  /\ new_start' = start
                /\ new_end' = end
                /\ current_levels' = last_entry.cauldron_levels
                /\ current_time' = start
                /\ ticket_counter' = ExistingCounter(tickets_data)
                /\ rng_seed' = ExtLoopSeed
                /\ pc' = IF start <= end THEN "ext_loop" ELSE "ext_inject"
    /\ new_historical_data' = <<>>
    /\ new_tickets' = <<>>
    /\ new_unreported_drains' = <<>>
    /\ witch_schedules' = [w \in AllWitches |-> <<>>]
    /\ pending_drains' = <<>>
    /\ cauldrons_needing_collection' = <<>>
    /\ collections_per_cauldron' = [c \in Nodes |-> 0]
    /\ UNCHANGED <<hist, tickets_data, unreported_data, selected_unreported,
                   unreported_count, unseeded_draws, free_draws, attempts>>
    /\ UNCHANGED input_vars
    /\ UNCHANGED regenerate_vars
    /\ UNCHANGED <<travel_lookup, optimizer_vars>>

\* one pass of "while current_time <= new_end"
ExtendTick ==
    /\ pc = "ext_loop"
    /\ current_time <= new_end
    /\ \E dr \in ExtDraws(free_draws) :
         \E st \in {ExtMinute([ml |-> current_levels, cl |-> current_levels,
                               pd |-> pending_drains, ws |-> witch_schedules,
                               nt |-> new_tickets, tc |-> ticket_counter,
                               cnc |-> cauldrons_needing_collection,
                               cpc |-> collections_per_cauldron],
                              current_time, dr)} :
            /\ current_levels' = st.cl
            /\ pending_drains' = st.pd
            /\ witch_schedules' = st.ws
            /\ new_tickets' = st.nt
            /\ ticket_counter' = st.tc
            /\ cauldrons_needing_collection' = st.cnc
            /\ collections_per_cauldron' = st.cpc
            /\ new_historical_data' =
                   Append(new_historical_data,
                          [timestamp |-> current_time, cauldron_levels |-> st.ml])
            /\ free_draws' = IF st.tc > ticket_counter /\ free_draws > 0
                             THEN free_draws - 1 ELSE free_draws
    /\ unseeded_draws' = IF rng_seed = 0 THEN unseeded_draws + Cardinality(Nodes)
                         ELSE unseeded_draws
    /\ current_time' = current_time + 1
    /\ pc' = IF current_time + 1 <= new_end THEN "ext_loop" ELSE "ext_inject"
    /\ UNCHANGED <<hist, tickets_data, unreported_data, new_start, new_end,
                   new_unreported_drains, selected_unreported, unreported_count,
                   rng_seed, attempts>>
    /\ UNCHANGED input_vars
    /\ UNCHANGED regenerate_vars
    /\ UNCHANGED <<travel_lookup, optimizer_vars>>

\* ------------------------------- extension scripts: unreported drains
\* the snapshot of the new entries whose timestamp is within a minute of t;
\* <<>> when there is none
EntryAt(entries, t) ==
    IF \E k \in 1..Len(entries) : entries[k].timestamp = t
    THEN <<entries[CHOOSE k \in 1..Len(entries) : entries[k].timestamp = t]>>
    ELSE <<>>

\* random.choice on the candidates, given as the end of the list it takes
Chosen(candidates, pick) ==
    IF pick = "first" THEN CHOOSE c \in candidates : \A d \in candidates : c <= d
    ELSE CHOOSE c \in candidates : \A d \in candidates : c >= d

\* the entries with drain_start <= ts <= drain_end get the level of the
\* cauldron lowered by the net drain of one minute
ExtLowered(entries, cauldron_id, drain_start, drain_end, net, guarded, rounded) ==
    [k \in 1..Len(entries) |->
        IF drain_start <= entries[k].timestamp
           /\ entries[k].timestamp <= drain_end
           /\ (guarded => net > 0)
        THEN [entries[k] EXCEPT !.cauldron_levels[cauldron_id] =
                 Max(0, IF rounded THEN Round2(@ - net) ELSE @ - net)]
        ELSE entries[k]]

UnreportedRecord(cauldron_id, drain_start, drain_end, amount, duration) ==
    [cauldron_id |-> cauldron_id,
     drain_start_timestamp |-> drain_start,
     drain_end_timestamp |-> drain_end,
     estimated_amount_drained_liters |-> Round2(amount),
     duration_minutes |-> duration,
     note |-> "NO TICKET EXISTS - this is an unreported drain"]

\* candidate_times of extend_to_nov9.py (Nov 8 11:30, 19:15, Nov 9 07:00,
\* 16:30) and of fix_nov8_9_data.py (Nov 8 12:30, 20:45, Nov 9 06:15, 15:30)
candidate_times ==
    IF script = "extend_to_nov9" THEN <<690, 1155, 1860, 2430>>
    ELSE <<750, 1245, 1815, 2370>>

FIXED_MIN_LEVEL == 200000
SELECT_MIN_LEVEL == 150000
PROCESS_MIN_LEVEL == 50000

\* the drains selected at the candidate times i..4
RECURSIVE SelectedDrains(_, _, _)
SelectedDrains(entries, i, dr) ==
    IF i > Len(candidate_times) THEN <<>>
    ELSE LET at == EntryAt(entries, candidate_times[i])
             candidates == IF at = <<>> THEN {}
                           ELSE {c \in DOMAIN at[1].cauldron_levels :
                                    at[1].cauldron_levels[c] > FIXED_MIN_LEVEL}
         IN  (IF candidates = {} THEN <<>>
              ELSE LET c == Chosen(candidates, dr.pick)
                   IN  <<[cauldron_id |-> c,
                          drain_start |-> candidate_times[i],
                          drain_end |-> candidate_times[i] + dr.duration,
                          drain_amount |-> Min(dr.amount,
                                               (at[1].cauldron_levels[c] * 55) \div 100),
                          duration |-> dr.duration,
                          fill_rate |-> fill_rates[c]]>>)
             \o SelectedDrains(entries, i + 1, dr)

\* "for drain in selected_drains": the history is rewritten and the record
\* appended, drain after drain
RECURSIVE ApplySelected(_, _, _)
ApplySelected(selected, entries, records) ==
    IF selected = <<>> THEN [entries |-> entries, records |-> records]
    ELSE LET drain == Head(selected)
             net == drain.drain_amount \div drain.duration - drain.fill_rate
         IN  ApplySelected(Tail(selected),
                 ExtLowered(entries, drain.cauldron_id, drain.drain_start,
                            drain.drain_end, net, script = "extend_to_nov9", TRUE),
                 Append(records,
                        UnreportedRecord(drain.cauldron_id, drain.drain_start,
                                         drain.drain_end, drain.drain_amount,
                                         drain.duration)))

FixedTimeDraws ==
    [pick : {"first", "last"},
     duration : {60, 75},
     amount : {200000, 350000}]

\* extend_to_nov9.py lines 331-389, fix_nov8_9_data.py lines 287-345
InjectAtCandidateTimes ==
    /\ pc = "ext_inject"
    /\ script \in {"extend_to_nov9", "fix_nov8_9_data"}
    /\ \E dr \in FixedTimeDraws :
         \E res \in {ApplySelected(SelectedDrains(new_historical_data, 1, dr),
                                   new_historical_data, new_unreported_drains)} :
            /\ new_historical_data' = res.entries
            /\ new_unreported_drains' = res.records
    /\ rng_seed' = ExtInjectSeed
    /\ pc' = "ext_merge"
    /\ UNCHANGED <<hist, tickets_data, unreported_data, new_start, new_end,
                   new_tickets, selected_unreported, unreported_count,
                   unseeded_draws, free_draws, attempts, current_time,
                   current_levels, witch_schedules, pending_drains,
                   cauldrons_needing_collection, collections_per_cauldron,
                   ticket_counter>>
    /\ UNCHANGED input_vars
    /\ UNCHANGED regenerate_vars
    /\ UNCHANGED <<travel_lookup, optimizer_vars>>

\* extend_data.py lines 302-316: unreported_count and busy_times
PlanUnreported ==
    /\ pc = "ext_inject"
    /\ script = "extend_data"
    /\ \E n \in {3, 4} : unreported_count' = n
    /\ selected_unreported' = <<>>
    /\ attempts' = 0
    /\ unseeded_draws' = IF rng_seed = 0 THEN unseeded_draws + 1 ELSE unseeded_draws
    /\ pc' = "ext_select"
    /\ UNCHANGED <<hist, tickets_data, unreported_data, new_start, new_end,
                   new_historical_data, new_tickets, new_unreported_drains,
                   rng_seed, free_draws, current_time, current_levels,
                   witch_schedules, pending_drains, cauldrons_needing_collection,
                   collections_per_cauldron, ticket_counter>>
    /\ UNCHANGED input_vars
    /\ UNCHANGED regenerate_vars
    /\ UNCHANGED <<travel_lookup, optimizer_vars>>

\* check_time in busy_times: a minute from collection_start to
\* unload_complete of a scheduled event
Busy(t, schedules) ==
    \E w \in DOMAIN schedules : \E k \in 1..Len(schedules[w]) :
        schedules[w][k].collection_start <= t
        /\ t <= schedules[w][k].unload_complete

SELECT_ATTEMPTS == 20

SelectDraws == [hour_offset : {6, 7, 42}, pick : {"first", "last"}]

\* one pass of "for attempt in range(20)". The too_close test reads
\* d['drain_start_timestamp'] of a selected entry of the same cauldron; the
\* entries have the keys time, cauldron_id and level, so it raises KeyError
SelectAttempt ==
    /\ pc = "ext_select"
    /\ attempts < SELECT_ATTEMPTS
    /\ \E dr \in SelectDraws :
         LET check_time == new_start + 60 * dr.hour_offset
             at == EntryAt(new_historical_data, check_time)
             candidates == IF at = <<>> THEN {}
                           ELSE {c \in DOMAIN at[1].cauldron_levels :
                                    at[1].cauldron_levels[c] > SELECT_MIN_LEVEL}
             exhausted == attempts + 1 >= SELECT_ATTEMPTS
         IN  IF Busy(check_time, witch_schedules) \/ candidates = {}
             THEN /\ selected_unreported' = selected_unreported
                  /\ pc' = IF exhausted THEN "ext_process" ELSE "ext_select"
             ELSE LET c == Chosen(candidates, dr.pick)
                      same == \E k \in 1..Len(selected_unreported) :
                                  selected_unreported[k].cauldron_id = c
                      entry == [time |-> check_time, cauldron_id |-> c,
                                level |-> at[1].cauldron_levels[c]]
                  IN  IF same
                      THEN /\ selected_unreported' = selected_unreported
                           /\ pc' = "crashed"
                      ELSE /\ selected_unreported' = Append(selected_unreported, entry)
                           /\ pc' = IF Len(selected_unreported) + 1 >= unreported_count
                                       \/ exhausted
                                    THEN "ext_process" ELSE "ext_select"
    /\ attempts' = attempts + 1
    /\ unseeded_draws' = IF rng_seed = 0 THEN unseeded_draws + 1 ELSE unseeded_draws
    /\ UNCHANGED <<hist, tickets_data, unreported_data, new_start, new_end,
                   new_historical_data, new_tickets, new_unreported_drains,
                   unreported_count, rng_seed, free_draws, current_time,
                   current_levels, witch_schedules, pending_drains,
                   cauldrons_needing_collection, collections_per_cauldron,
                   ticket_counter>>
    /\ UNCHANGED input_vars
    /\ UNCHANGED regenerate_vars
    /\ UNCHANGED <<travel_lookup, optimizer_vars>>

ProcessDraws == [duration : {50, 80}, amount : {150000, 350000}]

\* "for drain_info in selected_unreported"
RECURSIVE ProcessSelected(_, _, _, _)
ProcessSelected(selected, entries, records, dr) ==
    IF selected = <<>> THEN [entries |-> entries, records |-> records]
    ELSE LET drain_info == Head(selected)
             c == drain_info.cauldron_id
             drain_end == drain_info.time + dr.duration
             at == EntryAt(entries, drain_info.time)
             level_at_start == IF at = <<>> THEN 0 ELSE at[1].cauldron_levels[c]
             actual_drain == Min(dr.amount, (level_at_start * 6) \div 10)
             net == actual_drain \div dr.duration - fill_rates[c]
         IN  IF level_at_start > PROCESS_MIN_LEVEL
             THEN ProcessSelected(Tail(selected),
                      ExtLowered(entries, c, drain_info.time, drain_end, net,
                                 TRUE, FALSE),
                      Append(records,
                             UnreportedRecord(c, drain_info.time, drain_end,
                                              actual_drain, dr.duration)),
                      dr)
             ELSE ProcessSelected(Tail(selected), entries, records, dr)

\* extend_data.py lines 355-392
ProcessUnreported ==
    /\ pc = "ext_process"
    /\ \E dr \in ProcessDraws :
         \E res \in {ProcessSelected(selected_unreported, new_historical_data,
                                     new_unreported_drains, dr)} :
            /\ new_historical_data' = res.entries
            /\ new_unreported_drains' = res.records
    /\ unseeded_draws' = IF rng_seed = 0 THEN unseeded_draws + 1 ELSE unseeded_draws
    /\ pc' = "ext_merge"
    /\ UNCHANGED <<hist, tickets_data, unreported_data, new_start, new_end,
                   new_tickets, selected_unreported, unreported_count, rng_seed,
                   free_draws, attempts, current_time, current_levels,
                   witch_schedules, pending_drains, cauldrons_needing_collection,
                   collections_per_cauldron, ticket_counter>>
    /\ UNCHANGED input_vars
    /\ UNCHANGED regenerate_vars
    /\ UNCHANGED <<travel_lookup, optimizer_vars>>

\* the three lists are extended with the new records and the files saved
MergeAndSave ==
    /\ pc = "ext_merge"
    /\ hist' = hist \o new_historical_data
    /\ tickets_data' = tickets_data \o new_tickets
    /\ unreported_data' = unreported_data \o new_unreported_drains
    /\ pc' = "ext_saved"
    /\ UNCHANGED <<new_start, new_end, new_historical_data, new_tickets,
                   new_unreported_drains, selected_unreported, unreported_count,
                   rng_seed, unseeded_draws, free_draws, attempts, current_time,
                   current_levels, witch_schedules, pending_drains,
                   cauldrons_needing_collection, collections_per_cauldron,
                   ticket_counter>>
    /\ UNCHANGED input_vars
    /\ UNCHANGED regenerate_vars
    /\ UNCHANGED <<travel_lookup, optimizer_vars>>

NextExtend ==
    \/ LoadExisting \/ ExtendTick \/ InjectAtCandidateTimes \/ PlanUnreported
    \/ SelectAttempt \/ ProcessUnreported \/ MergeAndSave

\* ----------------------------------------- extension scripts: inputs
ExtendSpan == 450

\* a ticket of transport_tickets.json as an earlier run wrote it
ExistingTicket(cauldron_id, start, end, amount, counter) ==
    ExtTicket(cauldron_id, "w1",
              [collection_start |-> start, collection_end |-> end],
              amount, 0, counter)

ExistingTickets ==
    <<ExistingTicket(3, 100, 170, 2000000, 7),
      ExistingTicket(6, 200, 260, 300000, 3)>>

ExistingUnreported == <<UnreportedRecord(6, 300, 360, 250000, 60)>>

\* the timestamp of the last snapshot of the existing history: 07:59 and
\* 11:39 of Nov 8, 15:59 of Nov 9
LastTimestamp(s) ==
    IF s = "extend_data" THEN 479
    ELSE IF s = "fix_nov8_9_data" THEN 699
    ELSE 2399

ExistingHistory(last, levels) ==
    <<[timestamp |-> last - 1,
       cauldron_levels |-> [c \in DOMAIN levels |-> levels[c] - 10000]],
      [timestamp |-> last, cauldron_levels |-> levels]>>

ExtendConfigs ==
    [script : ExtensionScripts,
     last : {0},
     roster : {FullRoster},
     tickets : {<<>>, ExistingTickets},
     free : {0, 1}]
    \cup
    [script : ExtensionScripts,
     last : {0},
     roster : {<<<<>>, <<>>, <<>>>>},
     tickets : {ExistingTickets},
     free : {0}]
    \cup
    \* a history that already reaches the end of Nov 9
    [script : {"extend_to_nov9"},
     last : {NOV9_END},
     roster : {FullRoster},
     tickets : {ExistingTickets},
     free : {0}]

ExtendStart(cfg) ==
    /\ pc = "start"
    /\ script = cfg.script
    /\ total_minutes = ExtendSpan
    /\ cauldrons = (3 :> 5000000) @@ (6 :> 1000000)
    /\ network_edges = <<Edge(MARKET, 3, 20)>>
    /\ witches_by_shift = cfg.roster
    /\ fill_rates = [c \in {3, 6} |-> ExtFillRateTable[c]]
    /\ noise_draw = NominalNoise
    /\ free_draws = cfg.free
    /\ hist = ExistingHistory(IF cfg.last = 0 THEN LastTimestamp(cfg.script)
                              ELSE cfg.last,
                              (3 :> 3900000) @@ (6 :> 600000))
    /\ tickets_data = cfg.tickets
    /\ unreported_data = ExistingUnreported
    /\ loaded = [hist |-> hist, tickets |-> tickets_data,
                 unreported |-> unreported_data]
    /\ new_start = 0
    /\ new_end = 0
    /\ new_historical_data = <<>>
    /\ new_tickets = <<>>
    /\ new_unreported_drains = <<>>
    /\ selected_unreported = <<>>
    /\ unreported_count = 0
    /\ rng_seed = 0
    /\ unseeded_draws = 0
    /\ current_time = 0
    /\ current_levels = [c \in {3, 6} |-> 0]
    /\ witch_schedules = [w \in AllWitches |-> <<>>]
    /\ pending_drains = <<>>
    /\ cauldrons_needing_collection = <<>>
    /\ collections_per_cauldron = [c \in {3, 6} |-> 0]
    /\ ticket_counter = 0
    /\ attempts = 0
    /\ historical_data = <<>>
    /\ transport_tickets = <<>>
    /\ unreported_drains = <<>>
    /\ added_unreported_drains = <<>>
    /\ target_unreported_count = 0
    /\ ledger = <<>>
    /\ NoOptimizer

InitExtend == \E cfg \in ExtendConfigs : ExtendStart(cfg)

\* the runs of the four generator scripts
InitGenerators ==
    \/ InitExtend
    \/ \E cfg \in AdjacentConfigs : Start(cfg)

NextGenerators == Next \/ NextExtend

SpecGenerators == InitGenerators /\ [][NextGenerators]_vars

\* ------------------------------------------------- optimize_witches.py
\* Timestamps are minutes; market_001 is MARKET; Witch i of the list witches
\* is opt_witches[i], her id WitchIds[i]; current_witch_idx counts from 0.
NUM_WITCHES == 5
MIN_BUFFER == 5
OPT_UNLOAD_TIME == 15

WitchIds == <<"courier_witch_01", "courier_witch_02", "courier_witch_03",
              "courier_witch_04", "courier_witch_05">>

\* one entry of ticket_events
TicketEvent(ticket) ==
    [ticket_id |-> ticket.ticket_id,
     cauldron_id |-> ticket.cauldron_id,
     start |-> ticket.collection_start_timestamp,
     end |-> ticket.collection_timestamp,
     collection_duration |-> ticket.collection_timestamp
                                 - ticket.collection_start_timestamp]

\* ticket_events.sort(key=lambda x: x['start']): a stable sort
RECURSIVE InsertByStart(_, _)
InsertByStart(sorted, x) ==
    IF sorted = <<>> THEN <<x>>
    ELSE IF Head(sorted).start <= x.start
         THEN <<Head(sorted)>> \o InsertByStart(Tail(sorted), x)
         ELSE <<x>> \o sorted

RECURSIVE SortByStart(_, _)
SortByStart(events, n) ==
    IF n = 0 THEN <<>>
    ELSE InsertByStart(SortByStart(events, n - 1), events[n])

\* Witch.can_handle_ticket
can_handle_ticket(schedule, ticket) ==
    IF schedule = <<>> THEN TRUE
    ELSE schedule[Len(schedule)].unload_end
             + get_travel_time(MARKET, ticket.cauldron_id)
                 <= ticket.start + MIN_BUFFER

\* the tuple Witch.assign_ticket appends to the schedule
assign_ticket(schedule, ticket) ==
    LET travel_to_cauldron == get_travel_time(MARKET, ticket.cauldron_id)
        travel_to_market == get_travel_time(ticket.cauldron_id, MARKET)
        arrival_at_cauldron ==
            IF schedule = <<>> THEN ticket.start
            ELSE Max(schedule[Len(schedule)].unload_end + travel_to_cauldron,
                     ticket.start)
        collection_end ==
            IF schedule = <<>> THEN ticket.end
            ELSE arrival_at_cauldron + ticket.collection_duration
    IN  [arrival_at_cauldron |-> arrival_at_cauldron,
         collection_start |-> arrival_at_cauldron,
         collection_end |-> collection_end,
         travel_to_market_end |-> collection_end + travel_to_market,
         unload_end |-> collection_end + travel_to_market + OPT_UNLOAD_TIME,
         cauldron_id |-> ticket.cauldron_id,
         ticket_id |-> ticket.ticket_id]

\* the index (from 0) of the Witch the while loop tries in its pass k
TriedWitch(k) == (current_witch_idx + k) % NUM_WITCHES

\* the passes of the while loop in which the Witch tried can handle the ticket
AblePasses(ticket) ==
    {k \in 0..(NUM_WITCHES - 1) :
        can_handle_ticket(opt_witches[TriedWitch(k) + 1], ticket)}

\* the Witch that gets the ticket: the first that can handle it, or, after
\* NUM_WITCHES failed passes, the one the index has come back to
AssignedWitch(ticket) ==
    IF AblePasses(ticket) = {} THEN TriedWitch(NUM_WITCHES)
    ELSE TriedWitch(CHOOSE k \in AblePasses(ticket) :
                        \A j \in AblePasses(ticket) : k <= j)

\* the variables optimize_witches.py neither reads nor writes, and those it
\* only reads
optimizer_idle_vars ==
    <<total_minutes, fill_rates, rng_seed, unseeded_draws, noise_draw,
      free_draws, current_time, current_levels, historical_data,
      transport_tickets, unreported_drains, added_unreported_drains,
      witch_schedules, pending_drains, cauldrons_needing_collection,
      collections_per_cauldron, ticket_counter, target_unreported_count,
      attempts, ledger, script, hist, unreported_data, loaded, new_start,
      new_end, new_historical_data, new_tickets, new_unreported_drains,
      selected_unreported, unreported_count, travel_lookup, cauldrons,
      network_edges>>

\* lines 18-68 and 150-161: the tickets are parsed and sorted, the Witches
\* are created; ticket_events[0] (line 68) raises IndexError without tickets
LoadTickets ==
    /\ pc = "start"
    /\ script = "optimize_witches"
    /\ ticket_events' = SortByStart([i \in 1..Len(tickets_data) |->
                                        TicketEvent(tickets_data[i])],
                                    Len(tickets_data))
    /\ IF tickets_data = <<>>
       THEN /\ pc' = "crashed"
            /\ UNCHANGED <<opt_witches, next_event>>
       ELSE /\ pc' = "assign"
            /\ opt_witches' = [i \in 1..NUM_WITCHES |-> <<>>]
            /\ next_event' = 1
    /\ UNCHANGED <<current_witch_idx, ticket_assignments, tickets_data,
                   witches_by_shift>>
    /\ UNCHANGED optimizer_idle_vars

\* lines 162-189: one pass of "for ticket in ticket_events", with its while
\* loop and the assignment without a conflict-free Witch
AssignTicket ==
    /\ pc = "assign"
    /\ next_event <= Len(ticket_events)
    /\ LET ticket == ticket_events[next_event]
           chosen == AssignedWitch(ticket)
       IN  /\ opt_witches' =
                  [opt_witches EXCEPT ![chosen + 1] =
                      Append(@, assign_ticket(@, ticket))]
           /\ ticket_assignments' =
                  Put(ticket_assignments, ticket.ticket_id, WitchIds[chosen + 1])
           /\ current_witch_idx' = (chosen + 1) % NUM_WITCHES
    /\ next_event' = next_event + 1
    /\ pc' = IF next_event = Len(ticket_events) THEN "opt_save" ELSE "assign"
    /\ UNCHANGED <<ticket_events, tickets_data, witches_by_shift>>
    /\ UNCHANGED optimizer_idle_vars

\* lines 198-263: cauldrons.json gets NUM_WITCHES couriers without a shift,
\* transport_tickets.json the new courier_id of every assigned ticket
SaveAssignments ==
    /\ pc = "opt_save"
    /\ tickets_data' =
           [i \in 1..Len(tickets_data) |->
               IF tickets_data[i].ticket_id \in DOMAIN ticket_assignments
               THEN [tickets_data[i] EXCEPT
                        !.courier_id = ticket_assignments[tickets_data[i].ticket_id]]
               ELSE tickets_data[i]]
    /\ witches_by_shift' = <<<<>>, <<>>, <<>>>>
    /\ pc' = "opt_saved"
    /\ UNCHANGED optimizer_vars
    /\ UNCHANGED optimizer_idle_vars

NextOptimize == LoadTickets \/ AssignTicket \/ SaveAssignments

\* the number of tickets of the largest transport_tickets.json
OptTickets == 6

\* a ticket as regenerate_all_data.py writes it: number i, on cauldron i
OptTicket(i, start) ==
    [ticket_id |-> <<start \div 1440, i>>,
     cauldron_id |-> i,
     collection_start_timestamp |-> start,
     collection_timestamp |-> start + 40,
     amount_collected |-> 20000,
     courier_id |-> "w1",
     status |-> "completed"]

\* transport_tickets.json: up to OptTickets tickets on different cauldrons
\* that start at 00:00, 01:52 or 03:20, in any order
OptTicketLists ==
    UNION {{[i \in 1..n |-> OptTicket(i, starts[i])] :
               starts \in [1..n -> {0, 112, 200}]} : n \in 0..OptTickets}

OptimizeStart(tickets) ==
    /\ pc = "start"
    /\ script = "optimize_witches"
    /\ tickets_data = tickets
    /\ cauldrons = [c \in 1..OptTickets |-> 1000000]
    /\ network_edges = <<Edge(MARKET, 1, 30), Edge(2, MARKET, 30)>>
    /\ witches_by_shift = Roster(<<"w1">>, <<>>)
    /\ total_minutes = 0
    /\ fill_rates = [c \in 1..OptTickets |-> FillRateTable[c]]
    /\ unreported_drains = <<>>
    /\ noise_draw = NominalNoise
    /\ free_draws = 0
    /\ rng_seed = 0
    /\ unseeded_draws = 0
    /\ current_time = 0
    /\ current_levels = [c \in 1..OptTickets |-> 0]
    /\ historical_data = <<>>
    /\ transport_tickets = <<>>
    /\ added_unreported_drains = <<>>
    /\ witch_schedules = <<>>
    /\ pending_drains = <<>>
    /\ cauldrons_needing_collection = <<>>
    /\ collections_per_cauldron = [c \in 1..OptTickets |-> 0]
    /\ ticket_counter = 0
    /\ target_unreported_count = 0
    /\ attempts = 0
    /\ ledger = <<>>
    /\ hist = <<>>
    /\ unreported_data = <<>>
    /\ loaded = <<>>
    /\ new_start = 0
    /\ new_end = 0
    /\ new_historical_data = <<>>
    /\ new_tickets = <<>>
    /\ new_unreported_drains = <<>>
    /\ selected_unreported = <<>>
    /\ unreported_count = 0
    /\ NoOptimizer

InitOptimize == \E tickets \in OptTicketLists : OptimizeStart(tickets)

SpecOptimize == InitOptimize /\ [][NextOptimize]_vars

\* ------------------------------------------- zero-collections rule
\* runs in which the large cauldron_009 first becomes a candidate in the
\* tick in which cauldron_003 is a candidate for its second collection
ZeroCollectionsConfigs ==
    [total : {MidHorizon},
     cauldrons : {(3 :> 100000) @@ (9 :> 3140000),
                  (3 :> 100000) @@ (9 :> 3180000),
                  (3 :> 100000) @@ (9 :> 3220000)},
     edges : {<<>>},
     roster : {Roster(<<"w1">>, <<>>)},
     preload : {<<>>},
     noise : {NominalNoise, LowNoise, HighNoise},
     free : {0, MaxFreeDraws}]

InitZeroCollections == \E cfg \in ZeroCollectionsConfigs : Start(cfg)

NextZeroCollections == Initialize \/ Tick

SpecZeroCollections == InitZeroCollections /\ [][NextZeroCollections]_vars

\* ------------------------------------------------- end of a shift
\* long runs in which the only courier, on shift 1, has trips of several
\* hours: cauldron_003 is an hour away from the market
ShiftEndConfigs ==
    [total : {LongHorizon},
     cauldrons : {(3 :> 1000000) @@ (9 :> 1000000)},
     edges : {<<Edge(MARKET, 3, 60)>>},
     roster : {Roster(<<"w1">>, <<>>)},
     preload : {<<>>},
     noise : {NominalNoise, LowNoise, HighNoise},
     free : {0}]

InitShiftEnd == \E cfg \in ShiftEndConfigs : Start(cfg)

NextShiftEnd == Initialize \/ Tick

SpecShiftEnd == InitShiftEnd /\ [][NextShiftEnd]_vars

\* ---------------------------------------------------- malformed inputs
\* short runs whose cauldrons.json holds a negative max_volume, or whose
\* unreported_drains.json holds a drain that ends before it starts
MalformedConfigs ==
    [total : {ShortHorizon},
     cauldrons : {(3 :> 0 - 100000) @@ (9 :> 100000)},
     edges : {<<>>},
     roster : {Roster(<<"w1">>, <<>>)},
     preload : {<<>>},
     noise : {NominalNoise, LowNoise, HighNoise},
     free : {0, MaxFreeDraws}]
    \cup
    [total : {ShortHorizon},
     cauldrons : {(3 :> 100000) @@ (9 :> 100000)},
     edges : {<<>>},
     roster : {Roster(<<"w1">>, <<>>)},
     preload : {<<Drain(3, 60, 40, 6000)>>, <<Drain(9, 30, 10, 5000)>>},
     noise : {NominalNoise},
     free : {0, MaxFreeDraws}]

InitMalformed == \E cfg \in MalformedConfigs : Start(cfg)

\* the start of the script and its minute loop
NextMalformed == Initialize \/ Tick

SpecMalformed == InitMalformed /\ [][NextMalformed]_vars

\* ------------------------------------------------ travel-time lookups
\* the variables of the minute loop and of the injector
generator_vars == <<pc, total_minutes, cauldrons, network_edges,
                    witches_by_shift, fill_rates, rng_seed, unseeded_draws,
                    noise_draw, free_draws, current_time, current_levels,
                    historical_data, transport_tickets, unreported_drains,
                    added_unreported_drains, witch_schedules, pending_drains,
                    cauldrons_needing_collection, collections_per_cauldron,
                    ticket_counter, target_unreported_count, attempts, ledger>>

MaxEdges == 2

\* the market and two cauldrons
Locations == {MARKET, 3, 9}

\* network.edges of cauldrons.json: up to MaxEdges edges between the
\* locations, in any direction, a pair possibly listed more than once
EdgeLists ==
    UNION {[1..n -> [from : Locations, to : Locations,
                     travel_time_minutes : {5, 7}]] : n \in 0..MaxEdges}

\* a run of regenerate_all_data.py that has read cauldrons.json
InitTravel ==
    \E edges \in EdgeLists :
        Start([total |-> ShortHorizon,
               cauldrons |-> (3 :> 100000) @@ (9 :> 100000),
               edges |-> edges,
               roster |-> Roster(<<"w1">>, <<>>),
               preload |-> <<>>,
               noise |-> NominalNoise,
               free |-> 0])

\* one call get_travel_time(from_id, to_id) after travel_times is built
LookupTravel ==
    /\ pc = "start"
    /\ \E from_id, to_id \in Locations :
           travel_lookup' = [from_id |-> from_id, to_id |-> to_id,
                             minutes |-> get_travel_time(from_id, to_id)]
    /\ UNCHANGED generator_vars
    /\ UNCHANGED extension_vars
    /\ UNCHANGED optimizer_vars

NextTravel == LookupTravel

SpecTravel == InitTravel /\ [][NextTravel]_vars

\* ------------------------------------------------------------ claims
\* C1: every level recorded in a snapshot lies between 0 and the max_volume
\* of its cauldron, for the snapshots the loop appends (after fill and
\* drains) and for the snapshots the injector has rewritten
C1_LevelWithinBounds ==
    \A k \in 1..Len(historical_data) :
        \A c \in Nodes :
            0 <= historical_data[k][c] /\ historical_data[k][c] <= cauldrons[c]

\* the anomalies the injector has accepted so far
Injected ==
    IF pc \in {"inject", "done", "crashed", "output_error", "saved"}
    THEN SubSeq(added_unreported_drains,
                Cardinality({i \in 1..Len(ledger) : ~ledger[i].by_dispatch}) + 1,
                Len(added_unreported_drains))
    ELSE <<>>

\* a run whose loop has applied a drain and whose history the injector has
\* rewritten for an accepted anomaly
C1_Witness ==
    /\ Injected # <<>>
    /\ \E i \in 1..Len(ledger) : ledger[i].n_applied > 0

\* the entries of pending_drains with start <= t <= end for cauldron c
ActiveDrains(c, t) ==
    {i \in 1..Len(pending_drains) :
        /\ pending_drains[i].cauldron_id = c
        /\ pending_drains[i].start <= t
        /\ t <= pending_drains[i].end}

\* C2: at every tick of the loop and for every cauldron, at most one entry
\* of pending_drains (dispatched or pre-loaded) has start <= current time <=
\* end; current_time is the tick the loop is about to run
C2_AtMostOneActiveDrain ==
    pc = "loop" =>
        \A c \in Nodes : Cardinality(ActiveDrains(c, current_time)) <= 1

\* C3: any two commitments [departure_from_market, unload_complete] of one
\* courier are disjoint and at least MIN_BUFFER_BETWEEN_TRIPS (30 minutes)
\* apart, after any sequence of dispatches
C3_CourierWindowsBuffered ==
    \A w \in DOMAIN witch_schedules :
        \A i, j \in 1..Len(witch_schedules[w]) :
            i < j =>
                \/ witch_schedules[w][i].unload_complete + 30
                       <= witch_schedules[w][j].departure_from_market
                \/ witch_schedules[w][j].unload_complete + 30
                       <= witch_schedules[w][i].departure_from_market

\* a courier that already had a commitment was sent to cauldron_009 by a tick
\* before the midpoint (where is_witch_available uses its 15 minute buffer)
C3_Witness ==
    \E i \in 1..Len(ledger) :
        /\ ledger[i].by_dispatch
        /\ ledger[i].cauldron_id = CAULDRON_009
        /\ BeforeMidpoint(ledger[i].created_at)
        /\ \E k \in 1..(ledger[i].ticket_no - 1) :
               transport_tickets[k].courier_id
                   = transport_tickets[ledger[i].ticket_no].courier_id

\* the schedule event committed together with ticket k
EventOf(k) ==
    LET ticket == transport_tickets[k]
        events == witch_schedules[ticket.courier_id]
    IN  events[CHOOSE i \in 1..Len(events) :
                   /\ events[i].cauldron_id = ticket.cauldron_id
                   /\ events[i].collection_start = ticket.collection_start_timestamp]

Flagged(ticket) == "is_suspicious" \in DOMAIN ticket

\* C4 as stated: a flagged ticket keeps a true amount >= its reported amount,
\* and the amount_collected of an unflagged ticket equals the gross amount of
\* its extraction exactly
C4_ReportedEqualsGross ==
    \A k \in 1..Len(transport_tickets) :
        IF Flagged(transport_tickets[k])
        THEN transport_tickets[k].actual_amount_collected
                 >= transport_tickets[k].amount_collected
        ELSE transport_tickets[k].amount_collected = EventOf(k).gross_drain

\* C4 amended: a flagged ticket keeps a true amount >= its reported amount,
\* and the amount_collected of an unflagged ticket is the gross amount of its
\* extraction rounded to two decimals
C4_ReportedIsRoundedGross ==
    \A k \in 1..Len(transport_tickets) :
        IF Flagged(transport_tickets[k])
        THEN transport_tickets[k].actual_amount_collected
                 >= transport_tickets[k].amount_collected
        ELSE transport_tickets[k].amount_collected = Round2(EventOf(k).gross_drain)

\* a flagged ticket and an unflagged ticket whose gross amount has more than
\* two decimals
C4_Witness ==
    /\ \E k \in 1..Len(transport_tickets) : Flagged(transport_tickets[k])
    /\ \E k \in 1..Len(transport_tickets) :
           /\ ~Flagged(transport_tickets[k])
           /\ EventOf(k).gross_drain % 10 # 0

\* C5: for a drain created by dispatch that was never clamped at zero, the
\* per-minute reductions applied on its behalf add up to its net_drain, up to
\* the rounding of each application (half a hundredth of a litre, 5 ml, per
\* application); checked once the drain is retired
C5_AppliedEqualsNetDrain ==
    \A i \in 1..Len(ledger) :
        (/\ ledger[i].by_dispatch
         /\ ~ledger[i].clamped
         /\ ledger[i].retired_at # NoTime)
        => Abs(ledger[i].applied - ledger[i].net_drain) <= 5 * ledger[i].n_applied

\* C6: two runs with the same seed constants and the same inputs produce the
\* same histories, tickets and anomalies, because every random draw that
\* influences the output is taken after the generator has been seeded; a run
\* satisfies this when it has taken no draw from the unseeded generator
C6_EveryDrawSeeded == unseeded_draws = 0

\* the first tick whose time is strictly greater than the end of a drain
FirstTickAfter(end) == Max(end + 1, 0)

\* C7: a drain leaves pending_drains at the first tick strictly after its end,
\* the removal is never skipped (a drain whose first later tick has run is
\* retired and no longer listed, also when several expire together), and no
\* drain is applied at a tick later than its end
C7_RetiredAtFirstTickAfterEnd ==
    /\ \A i \in 1..Len(ledger) :
           /\ ledger[i].retired_at # NoTime
                  => ledger[i].retired_at = FirstTickAfter(ledger[i].end)
           /\ FirstTickAfter(ledger[i].end) < current_time
                  => ledger[i].retired_at # NoTime
           /\ ledger[i].last_applied # NoTime
                  => ledger[i].last_applied <= ledger[i].end
    /\ \A k \in 1..Len(pending_drains) :
           ledger[pending_drains[k].id].retired_at = NoTime

\* two drains that expired in the same tick, one of them after having been
\* applied, are both retired
C7_Witness ==
    \E i, j \in 1..Len(ledger) :
        /\ i # j
        /\ ledger[i].retired_at # NoTime
        /\ ledger[i].retired_at = ledger[j].retired_at
        /\ ledger[i].n_applied > 0

\* C8, for the extractions of a run: every dispatched extraction has gross amount = net amount + fill_rate
\* x collection duration, and the gross amount is at most
\* MAX_CAPACITY_PER_WITCH, for the fill and drain rates of the configuration;
\* so the true amount of a ticket (its gross amount rounded) is within the
\* capacity too
C8_GrossWithinCapacity ==
    \A k \in 1..Len(transport_tickets) :
        LET event == EventOf(k)
            duration == event.collection_end - event.collection_start
        IN  /\ event.gross_drain
                   = event.actual_drain + fill_rates[event.cauldron_id] * duration
            /\ event.gross_drain <= MAX_CAPACITY_PER_WITCH
            /\ Round2(event.gross_drain) <= MAX_CAPACITY_PER_WITCH

\* C8, for the twelve cauldrons of the rate tables and every capped net
\* amount in whole litres: the extraction computed from it stays within the
\* capacity (the tables do not change, so the start of a run decides it)
C8_TablesWithinCapacity ==
    pc = "start" =>
        \A c \in 1..12 : \A litres \in 15..100 :
            LET net == Min(litres * 1000,
                           max_net_drain_for_capacity(FillRateTable[c], drain_rates[c]))
                ex == Collected(FillRateTable[c], drain_rates[c], net)
            IN  /\ ex.gross_drain
                       = ex.actual_drain + FillRateTable[c] * ex.collection_duration
                /\ ex.gross_drain <= MAX_CAPACITY_PER_WITCH

\* C8: both of the above
C8_GrossNeverExceedsCapacity == C8_GrossWithinCapacity /\ C8_TablesWithinCapacity

\* an extraction whose net amount was lowered to the cap that keeps the gross
\* amount within the capacity (the naive target was the whole capacity)
C8_Witness ==
    \E k \in 1..Len(transport_tickets) :
        LET event == EventOf(k)
        IN  /\ event.actual_drain
                   = max_net_drain_for_capacity(fill_rates[event.cauldron_id],
                                                drain_rates[event.cauldron_id])
            /\ event.gross_drain > event.actual_drain

\* the cauldrons at capacity (level >= 99% of max_volume) in tick 0
AtCapacityAtStart ==
    {c \in Nodes : historical_data[1][c] >= Frac(cauldrons[c], 990)}

\* the drains dispatch created in tick t
DispatchedAt(t) ==
    {i \in 1..Len(ledger) : ledger[i].by_dispatch /\ ledger[i].created_at = t}

\* the departure of ticket k is at least MIN_BUFFER_BETWEEN_TRIPS after every
\* earlier unload of its courier
DepartsAfterBuffer(k) ==
    \A j \in 1..(k - 1) :
        transport_tickets[j].courier_id = transport_tickets[k].courier_id
            => EventOf(k).departure_from_market
                   >= EventOf(j).unload_complete + MIN_BUFFER_BETWEEN_TRIPS

\* C9: with two cauldrons at capacity in tick 0, no active drain and one
\* courier without commitments, tick 0 dispatches exactly one of the two; the
\* other is dispatched in a later tick of the run, with a departure at least
\* the buffer after the courier's previous unload
C9_OneNowOtherLater ==
    (Len(historical_data) >= 1 /\ Cardinality(AtCapacityAtStart) = 2) =>
        /\ Cardinality({i \in DispatchedAt(0) :
                           ledger[i].cauldron_id \in AtCapacityAtStart}) = 1
        /\ pc # "loop" =>
               \A c \in AtCapacityAtStart :
                   \E i \in 1..Len(ledger) :
                       /\ ledger[i].by_dispatch
                       /\ ledger[i].cauldron_id = c
                       /\ DepartsAfterBuffer(ledger[i].ticket_no)

\* C10: with a single cauldron (fill_rate 10, max_volume 1000, level 950, no
\* active drain) and one courier of the current shift without commitments,
\* the first tick selects the cauldron, takes that courier and emits a ticket
\* whose collection_start_timestamp is strictly before its
\* collection_timestamp
C10_FirstTickEmitsTicket ==
    Len(historical_data) >= 1 =>
        /\ Len(transport_tickets) >= 1
        /\ DispatchedAt(0) = {1}
        /\ transport_tickets[1].cauldron_id \in Nodes
        /\ ledger[1].cauldron_id = transport_tickets[1].cauldron_id
        /\ transport_tickets[1].courier_id = witches_by_shift[1][1]
        /\ transport_tickets[1].collection_start_timestamp
               < transport_tickets[1].collection_timestamp

\* the state right after the first tick of the scenario, with its ticket
C10_Witness ==
    /\ current_time = 1
    /\ Cardinality(Nodes) = 1
    /\ \A c \in Nodes : fill_rates[c] = 10000 /\ cauldrons[c] = 1000000
    /\ Len(transport_tickets) = 1

\* the windows [a_start, a_end] and [b_start, b_end] share a minute or are
\* less than MIN_GAP_MINUTES apart
WithinGap(a_start, a_end, b_start, b_end) ==
    a_start < b_end + MIN_GAP_MINUTES /\ b_start < a_end + MIN_GAP_MINUTES

\* the positions in unreported_drains of the records the injector added
InjectedRecords ==
    {i \in 1..Len(unreported_drains) :
        i > Len(unreported_drains) - Len(Injected)}

\* C11: no record added by the injector has a window that overlaps, or lies
\* within 30 minutes of, the collection window of a ticket on the same
\* cauldron
C11_NoAnomalyNearTicket ==
    \A i \in InjectedRecords :
        \A k \in 1..Len(transport_tickets) :
            transport_tickets[k].cauldron_id = unreported_drains[i].cauldron_id
                => ~WithinGap(unreported_drains[i].drain_start_timestamp,
                              unreported_drains[i].drain_end_timestamp,
                              transport_tickets[k].collection_start_timestamp,
                              transport_tickets[k].collection_timestamp)

\* C12: the window of every record added by the injector neither overlaps
\* nor comes within 30 minutes of the window of any record that was in
\* unreported_drains before it (pre-loaded or accepted earlier) on the same
\* cauldron
C12_AnomaliesSpaced ==
    \A i \in InjectedRecords :
        \A j \in 1..(i - 1) :
            unreported_drains[j].cauldron_id = unreported_drains[i].cauldron_id
                => ~WithinGap(unreported_drains[i].drain_start_timestamp,
                              unreported_drains[i].drain_end_timestamp,
                              unreported_drains[j].drain_start_timestamp,
                              unreported_drains[j].drain_end_timestamp)

\* the number of commitments in all courier schedules
RECURSIVE CommitmentsOf(_, _)
CommitmentsOf(schedules, ws) ==
    IF ws = {} THEN 0
    ELSE LET w == CHOOSE x \in ws : TRUE
         IN  Len(schedules[w]) + CommitmentsOf(schedules, ws \ {w})

Commitments(schedules) == CommitmentsOf(schedules, DOMAIN schedules)

\* the number of drains that dispatch has entered into pending_drains
DispatchedDrains(lg) == Cardinality({i \in 1..Len(lg) : lg[i].by_dispatch})

\* C13: in every step of the script, and so in every tick, the number of
\* tickets, the number of drains entered into pending_drains by dispatch
\* and the number of courier commitments each grow by at most one; in a tick
\* the length of pending_drains itself grows by at most one
C13_AtMostOneDispatchPerTick ==
    [][/\ Len(transport_tickets') <= Len(transport_tickets) + 1
       /\ DispatchedDrains(ledger') <= DispatchedDrains(ledger) + 1
       /\ Commitments(witch_schedules') <= Commitments(witch_schedules) + 1
       /\ pc = "loop" => Len(pending_drains') <= Len(pending_drains) + 1]_vars

\* a tick has just dispatched one cauldron for one of two couriers of the
\* shift while another unmarked cauldron had a positive priority as well
C13_Witness ==
    /\ pc = "loop"
    /\ current_time >= 1
    /\ DispatchedAt(current_time - 1) # {}
    /\ Len(witches_by_shift[get_witch_shift(current_time - 1)]) >= 2
    /\ \E c \in Nodes :
           /\ c \notin DOMAIN cauldrons_needing_collection
           /\ Priority(c, historical_data[current_time][c],
                       collections_per_cauldron, current_time - 1) > 0

\* the cauldrons without a pending collection at the start of the next tick
Unmarked == Nodes \ DOMAIN cauldrons_needing_collection

\* the priority the next tick computes for cauldron c
Score(c) ==
    Priority(c, FillAndDrain(current_time).ml[c], collections_per_cauldron,
             current_time)

\* at_capacity as the next tick computes it for cauldron c
AtCapacity(c) == FillAndDrain(current_time).ml[c] >= Frac(cauldrons[c], 990)

\* C15: in every tick, no unmarked cauldron below 99% of its max_volume gets
\* a higher priority than an unmarked cauldron at or above 99%
C15_AtCapacityScoresHighest ==
    (pc = "loop" /\ current_time <= total_minutes - 1) =>
        \A a, b \in Unmarked :
            (AtCapacity(a) /\ ~AtCapacity(b)) => Score(b) <= Score(a)

\* cauldron c was marked in cauldrons_needing_collection when tick t began:
\* an earlier tick dispatched it and no tick at or after the end of that
\* collection has run yet
MarkedAt(c, t) ==
    \E i \in 1..Len(ledger) :
        /\ ledger[i].by_dispatch
        /\ ledger[i].cauldron_id = c
        /\ ledger[i].created_at < t
        /\ t <= ledger[i].end

\* collections_per_cauldron when tick t began
CollectionsBefore(t) ==
    [c \in Nodes |->
        Cardinality({i \in 1..Len(ledger) :
                        /\ ledger[i].by_dispatch
                        /\ ledger[i].cauldron_id = c
                        /\ ledger[i].created_at < t})]

\* in tick t cauldron c was an unmarked candidate (positive priority) and
\* was not dispatched
WaitingAt(c, t) ==
    /\ ~MarkedAt(c, t)
    /\ Priority(c, historical_data[t + 1][c], CollectionsBefore(t), t) > 0
    /\ \A i \in DispatchedAt(t) : ledger[i].cauldron_id # c

\* C16: with at least one courier in every shift, no cauldron stays an
\* unmarked candidate without being dispatched for more consecutive ticks
\* than there are cauldrons
C16_NoStarvation ==
    (pc = "loop" /\ \A s \in 1..3 : Len(witches_by_shift[s]) >= 1) =>
        \A c \in Nodes :
            \A t0 \in 0..(current_time - 1 - Cardinality(Nodes)) :
                \E t \in t0..(t0 + Cardinality(Nodes)) : ~WaitingAt(c, t)

\* a cauldron was passed over in every tick but one of as many ticks as there
\* are cauldrons, and was dispatched in the last of them
C16_Witness ==
    /\ pc = "loop"
    /\ \A s \in 1..3 : Len(witches_by_shift[s]) >= 1
    /\ current_time = Cardinality(Nodes)
    /\ \E c \in Nodes :
           /\ \A t \in 0..(current_time - 2) : WaitingAt(c, t)
           /\ \E i \in DispatchedAt(current_time - 1) : ledger[i].cauldron_id = c

\* the cauldron the next tick selects (candidates_for_collection[0]), as a
\* set: empty when the tick has no candidate
SelectedNow ==
    LET cands == CandidatesAt(FillAndDrain(current_time).ml, current_time)
    IN  IF cands = <<>> THEN {} ELSE {cands[1]}

\* no courier of the shift of the next tick has a window for the cauldron
\* top that passes both availability checks
NoFeasibleCourier(top) ==
    LET witches == witches_by_shift[get_witch_shift(current_time)]
    IN  \A i \in 1..Len(witches) :
            \A dr \in Draws(free_draws) :
                ~Trip(witches[i], top.cauldron_id, top.level, current_time, dr,
                      witch_schedules, transport_tickets).feasible

\* C17: a tick whose courier search finds no feasible courier for the
\* selected cauldron (also when the shift has no courier) creates no ticket,
\* no pending drain and no commitment, changes no counter, leaves the
\* cauldron unmarked, raises no error and goes on to the next tick, where
\* the cauldron is evaluated again
C17_NoCourierChangesNothing ==
    [][(/\ pc = "loop"
        /\ \E top \in SelectedNow : NoFeasibleCourier(top))
       => (/\ transport_tickets' = transport_tickets
           /\ witch_schedules' = witch_schedules
           /\ DispatchedDrains(ledger') = DispatchedDrains(ledger)
           /\ pending_drains' = FillAndDrain(current_time).pd
           /\ ticket_counter' = ticket_counter
           /\ collections_per_cauldron' = collections_per_cauldron
           /\ \A top \in SelectedNow :
                  top.cauldron_id \notin DOMAIN cauldrons_needing_collection'
           /\ current_time' = current_time + 1
           /\ pc' \in {"loop", "plan"})]_vars

\* a tick has just run in a shift without couriers while a cauldron was an
\* unmarked candidate
C17_Witness ==
    /\ pc = "loop"
    /\ current_time >= 1
    /\ witches_by_shift[get_witch_shift(current_time - 1)] = <<>>
    /\ \E c \in Nodes : WaitingAt(c, current_time - 1)

\* ---------------------------------------------------------------- C14
\* C14: every ticket a generator script emits has collection_start_timestamp
\* <= collection_timestamp; in regenerate_all_data.py the start is earlier by
\* at least the minimum collection duration of 15 minutes.
C14_StartNotAfterEnd ==
    /\ \A i \in 1..Len(transport_tickets) :
           transport_tickets[i].collection_start_timestamp + MIN_DURATION
               <= transport_tickets[i].collection_timestamp
    /\ \A i \in 1..Len(new_tickets) :
           new_tickets[i].collection_start_timestamp
               <= new_tickets[i].collection_timestamp

\* a finished run of regenerate_all_data.py that emitted tickets
C14_Witness ==
    /\ script = "regenerate_all_data"
    /\ pc = "saved"
    /\ Len(transport_tickets) >= 2

\* ---------------------------------------------------------------- C18
\* C18: a run in which no extraction is ever dispatched (the ticket list
\* stays empty) completes normally: once the injector is over, the output
\* step writes the history, ticket and unreported-drain files and never
\* ends in an error.
C18_EmptyRunCompletes ==
    (pc \in {"saved", "output_error"} /\ transport_tickets = <<>>)
        => pc = "saved"

\* ---------------------------------------------------------------- C19
\* the number of records of unreported_drains.json the run loaded
LoadedCount == Cardinality({i \in 1..Len(ledger) : ~ledger[i].by_dispatch})

InjectorOver == pc \in {"done", "saved", "output_error"}

\* one step of the injection loop that stays in the loop
LoopPass == pc = "inject" /\ pc' = "inject"

\* what holds in every state of the injector
AttemptsBounded ==
    pc \in {"inject", "done", "saved", "output_error", "crashed"} =>
        /\ attempts <= max_attempts + 1
        /\ Len(added_unreported_drains)
               <= Max(target_unreported_count, LoadedCount)
        /\ pc = "inject" => attempts <= max_attempts
        /\ InjectorOver =>
               \/ Len(added_unreported_drains) >= target_unreported_count
               \/ attempts = max_attempts + 1
        /\ pc = "crashed" => total_minutes - START_MARGIN < START_MARGIN

\* C19: the injection loop terminates. It is left as soon as the target
\* count is reached or with the pass that follows max_attempts (2000)
\* attempts, every pass that stays in the loop has counted at least one
\* attempt, a pass with the target reached changes nothing, and a run out
\* of attempts ends the injector normally, with fewer anomalies than
\* targeted (an error is only possible when the range of drain_start is
\* empty, total_minutes < 400).
C19_InjectionTerminates ==
    /\ []AttemptsBounded
    /\ [][LoopPass => attempts' >= attempts + 1]_vars
    /\ [][(pc = "inject"
             /\ Len(added_unreported_drains) >= target_unreported_count)
           => (pc' = "done"
               /\ UNCHANGED <<attempts, historical_data, unreported_drains,
                              added_unreported_drains>>)]_vars
    /\ (pc = "inject" ~> (InjectorOver \/ pc = "crashed"))

\* a run that ran out of attempts with fewer anomalies than targeted, and
\* whose injector is over
C19_Witness ==
    /\ InjectorOver
    /\ attempts = max_attempts + 1
    /\ Len(added_unreported_drains) < target_unreported_count
    /\ Len(added_unreported_drains) > LoadedCount

\* ---------------------------------------------------------------- C20
\* the last snapshot of the history the run loaded
LastLoaded == loaded.hist[Len(loaded.hist)]

IsPrefix(a, b) == Len(a) <= Len(b) /\ \A k \in 1..Len(a) : b[k] = a[k]

\* an unreported drain of the run that shows in the new snapshots: at its
\* first minute the level of its cauldron rises by clearly less than the
\* fill of a minute, or stays below max_volume, although no collection of the
\* run is under way
AnomalyVisible ==
    \E i \in 1..Len(new_unreported_drains) :
        LET r == new_unreported_drains[i]
            c == r.cauldron_id
            k == r.drain_start_timestamp - new_start + 1
        IN  /\ 2 <= k /\ k <= Len(new_historical_data)
            /\ new_historical_data[k].cauldron_levels[c]
               < Min(new_historical_data[k - 1].cauldron_levels[c]
                         + (fill_rates[c] * 9) \div 10,
                     cauldrons[c])
            /\ \A j \in 1..Len(new_tickets) :
                   new_tickets[j].cauldron_id = c =>
                       ~(new_tickets[j].collection_start_timestamp
                             <= r.drain_start_timestamp
                         /\ r.drain_start_timestamp
                             <= new_tickets[j].collection_timestamp)

\* C20: a run of an extension script starts from the levels of the last
\* existing snapshot and one minute after its timestamp, numbers its new
\* snapshots minute by minute from there, never changes a loaded snapshot,
\* ticket or unreported-drain record (the injected drains rewrite new
\* snapshots only), and saves the loaded records followed by the new ones.
C20_ExtensionContinues ==
    (script \in ExtensionScripts /\ pc # "start" /\ loaded.hist # <<>>) =>
        /\ new_start = LastLoaded.timestamp + 1
        /\ \A k \in 1..Len(new_historical_data) :
               new_historical_data[k].timestamp = new_start + k - 1
        /\ (pc = "ext_loop" /\ new_historical_data = <<>>) =>
               /\ current_time = new_start
               /\ current_levels = LastLoaded.cauldron_levels
        /\ IsPrefix(loaded.hist, hist)
        /\ IsPrefix(loaded.tickets, tickets_data)
        /\ IsPrefix(loaded.unreported, unreported_data)
        /\ pc # "ext_saved" =>
               /\ hist = loaded.hist
               /\ tickets_data = loaded.tickets
               /\ unreported_data = loaded.unreported
        /\ pc = "ext_saved" =>
               /\ hist = loaded.hist \o new_historical_data
               /\ tickets_data = loaded.tickets \o new_tickets
               /\ unreported_data = loaded.unreported \o new_unreported_drains

\* a saved run that emitted tickets and injected a drain that shows in its
\* new snapshots, after a history that held tickets already
C20_Witness ==
    /\ script \in ExtensionScripts
    /\ pc = "ext_saved"
    /\ loaded.tickets # <<>>
    /\ new_tickets # <<>>
    /\ AnomalyVisible
\* ---------------------------------------------------------------- C21
\* the level of cauldron c after the drain loop of tick t, when the fill step
\* has left it at level: every entry of pd that is active on c at t, with a
\* positive duration and a positive net amount, has subtracted its
\* net_drain / duration, in list order
RECURSIVE OnlyDrained(_, _, _, _, _)
OnlyDrained(pd, i, c, t, level) ==
    IF i > Len(pd) THEN level
    ELSE OnlyDrained(pd, i + 1, c, t,
             IF /\ pd[i].cauldron_id = c
                /\ pd[i].start <= t /\ t <= pd[i].end
                /\ pd[i].duration > 0 /\ pd[i].net_drain > 0
             THEN DrainedLevel(level, pd[i].net_drain, pd[i].duration)
             ELSE level)

\* the snapshot the step has appended
Recorded(history) == history[Len(history)]

\* C21: in a tick in which a cauldron has an active drain (start <= t <= end)
\* the fill step adds nothing to it: the level recorded for the tick is the
\* level it had before the tick (to two decimals) lowered by the subtractions
\* of its active drains only, so it is not above the level recorded for the
\* previous tick
C21_NoFillUnderDrain ==
    [][(pc = "loop" /\ current_time <= total_minutes - 1)
       => \A c \in BeingDrained(pending_drains, current_time) :
              /\ Recorded(historical_data')[c]
                     = OnlyDrained(pending_drains, 1, c, current_time,
                                   Round2(current_levels[c]))
              /\ Recorded(historical_data')[c] <= Round2(current_levels[c])
              /\ historical_data # <<>>
                     => Recorded(historical_data')[c] <= Recorded(historical_data)[c]]_vars

\* the last tick applied a drain created by dispatch and the recorded level of
\* its cauldron went down, and a pre-loaded drain has been applied as well
C21_Witness ==
    /\ pc = "loop"
    /\ current_time >= 2
    /\ \E i \in 1..Len(ledger) :
           /\ ledger[i].by_dispatch
           /\ ledger[i].last_applied = current_time - 1
           /\ historical_data[current_time][ledger[i].cauldron_id]
                  < historical_data[current_time - 1][ledger[i].cauldron_id]
    /\ \E j \in 1..Len(ledger) : ~ledger[j].by_dispatch /\ ledger[j].n_applied > 0
\* ---------------------------------------------------------------- C22
\* the positions in the edge list of the edges that join a and b, in either
\* direction
Joining(a, b) ==
    {i \in 1..Len(network_edges) :
        \/ network_edges[i].from = a /\ network_edges[i].to = b
        \/ network_edges[i].from = b /\ network_edges[i].to = a}

\* the last of them
LastJoining(a, b) ==
    CHOOSE i \in Joining(a, b) : \A j \in Joining(a, b) : j <= i

\* C22: for any edge list, also one that lists a pair in both directions with
\* different times, get_travel_time(a, b) = get_travel_time(b, a); the result
\* is 0 when a = b, a travel time listed for the pair when an edge joins a
\* and b in either direction (that of the last such edge of the list), and
\* the fallback 30 otherwise
C22_TravelTimeSymmetric ==
    travel_lookup # <<>> =>
        LET a == travel_lookup.from_id
            b == travel_lookup.to_id
        IN  /\ travel_lookup.minutes = get_travel_time(b, a)
            /\ a = b => travel_lookup.minutes = 0
            /\ (a # b /\ Joining(a, b) # {}) =>
                   travel_lookup.minutes
                       = network_edges[LastJoining(a, b)].travel_time_minutes
            /\ (a # b /\ Joining(a, b) = {}) =>
                   travel_lookup.minutes = DEFAULT_TRAVEL_TIME

\* a lookup of a pair that the edge list holds in both directions with
\* different times, asked in the direction listed first
C22_Witness ==
    /\ travel_lookup # <<>>
    /\ Len(network_edges) = 2
    /\ network_edges[1].from = travel_lookup.from_id
    /\ network_edges[1].to = travel_lookup.to_id
    /\ network_edges[2].from = travel_lookup.to_id
    /\ network_edges[2].to = travel_lookup.from_id
    /\ travel_lookup.from_id # travel_lookup.to_id
    /\ network_edges[1].travel_time_minutes # network_edges[2].travel_time_minutes
\* ---------------------------------------------------------------- C23
\* int(ticket_id.split('_')[-1]): the counter in a ticket identifier
CounterOf(ticket) == ticket.ticket_id[2]

\* the tickets of a sequence have pairwise distinct identifiers
DistinctIds(tickets) ==
    \A i, j \in 1..Len(tickets) :
        i # j => tickets[i].ticket_id # tickets[j].ticket_id

\* the counters of a sequence of emitted tickets follow first, first + 1, ...
CountsUpFrom(tickets, first) ==
    \A k \in 1..Len(tickets) : CounterOf(tickets[k]) = first + k - 1

\* C23: within a run the counter in the ticket identifiers grows by exactly
\* one with each emitted ticket, so the emitted identifiers are pairwise
\* distinct; an extension run starts from the largest counter of the tickets
\* it loaded, so no new identifier equals an existing one
C23_TicketIdsDistinct ==
    /\ ticket_counter >= 0
    /\ script = "regenerate_all_data" =>
           /\ CountsUpFrom(transport_tickets, 1)
           /\ ticket_counter = Len(transport_tickets)
           /\ DistinctIds(transport_tickets)
    /\ (script \in ExtensionScripts /\ pc # "start") =>
           /\ \A i \in 1..Len(loaded.tickets) :
                  CounterOf(loaded.tickets[i]) <= ticket_counter - Len(new_tickets)
           /\ loaded.tickets # <<>> =>
                  \E i \in 1..Len(loaded.tickets) :
                      CounterOf(loaded.tickets[i]) = ticket_counter - Len(new_tickets)
           /\ loaded.tickets = <<>> => ticket_counter = Len(new_tickets)
           /\ CountsUpFrom(new_tickets, ticket_counter - Len(new_tickets) + 1)
           /\ DistinctIds(loaded.tickets \o new_tickets)
           /\ pc = "ext_saved" => DistinctIds(tickets_data)

\* an extension run that loaded tickets has emitted two tickets, one of them
\* dated like a loaded ticket, and has saved the merged list
C23_Witness ==
    /\ script \in ExtensionScripts
    /\ pc = "ext_saved"
    /\ Len(new_tickets) >= 2
    /\ \E i \in 1..Len(loaded.tickets) :
           \E k \in 1..Len(new_tickets) :
               loaded.tickets[i].ticket_id[1] = new_tickets[k].ticket_id[1]
\* ---------------------------------------------------------------- C24
\* a cauldron with a negative max_volume, or a drain whose end is before its
\* start, is among the inputs of the run
MalformedInput ==
    \/ \E c \in Nodes : cauldrons[c] < 0
    \/ \E i \in 1..Len(unreported_drains) :
           unreported_drains[i].drain_end_timestamp
               < unreported_drains[i].drain_start_timestamp

\* the minute loop has run to its end without an error
LoopCompleted == pc \in {"plan", "inject", "done", "saved"}

\* C24: a cauldron definition with a negative capacity, and a drain whose end
\* time is before its start time, are signalled as errors: a run with such an
\* input does not complete its minute loop as if the input were well formed
C24_MalformedInputSignalled == MalformedInput => ~LoopCompleted
\* ---------------------------------------------------------------- C25
\* what the claim asks of two tickets of one Witch, a the earlier one: the
\* collection of b starts no earlier than the end of a's collection plus the
\* way back to the market, the unload and the way to b's cauldron
RoomBetween(a, b) ==
    b.collection_start_timestamp
        >= a.collection_timestamp + get_travel_time(a.cauldron_id, MARKET)
               + OPT_UNLOAD_TIME + get_travel_time(MARKET, b.cauldron_id)

\* C25: after optimize_witches.py has assigned all tickets and saved them, no
\* Witch is double-booked with respect to the tickets' own timestamps: of any
\* two tickets with the same courier_id, the one that starts later starts no
\* earlier than the other's collection end + travel back to the market + the
\* 15-minute unload + travel from the market to its cauldron
C25_NoDoubleBooking ==
    (script = "optimize_witches" /\ pc = "opt_saved") =>
        \A i, j \in 1..Len(tickets_data) :
            (/\ i # j
             /\ tickets_data[i].courier_id = tickets_data[j].courier_id
             /\ tickets_data[i].collection_start_timestamp
                    <= tickets_data[j].collection_start_timestamp)
            => RoomBetween(tickets_data[i], tickets_data[j])
\* ---------------------------------------------------------------- C26
\* the step appends a ticket to transport_tickets
TicketEmitted ==
    /\ pc = "loop"
    /\ Len(transport_tickets') = Len(transport_tickets) + 1

\* the window that courier w proposes in the next tick for cauldron top with
\* the draws dr passes the courier check and the cauldron check
Passes(w, top, dr) ==
    Trip(w, top.cauldron_id, top.level, current_time, dr, witch_schedules,
         transport_tickets).feasible

\* C26: when a tick dispatches the selected cauldron, the courier of the new
\* ticket is on the roster of the shift of the tick and is the first courier
\* of that roster, in roster order, whose proposed window passes the courier
\* check and the cauldron check: every courier before it failed a check, and
\* nothing is committed for the couriers after it (their schedules are
\* unchanged)
C26_FirstFeasibleCourier ==
    [][TicketEmitted =>
        LET roster == witches_by_shift[get_witch_shift(current_time)]
            ticket == transport_tickets'[Len(transport_tickets')]
        IN  \A top \in SelectedNow :
              /\ ticket.cauldron_id = top.cauldron_id
              /\ \E i \in 1..Len(roster) :
                     /\ roster[i] = ticket.courier_id
                     /\ \E dr \in Draws(free_draws) : Passes(roster[i], top, dr)
                     /\ \A j \in 1..(i - 1) :
                            \E dr \in Draws(free_draws) : ~Passes(roster[j], top, dr)
              /\ \A w \in DOMAIN witch_schedules :
                     w # ticket.courier_id => witch_schedules'[w] = witch_schedules[w]]_vars

\* a tick has just dispatched a cauldron in a shift with two couriers, to the
\* first of them, who had a commitment already, while the second had none
C26_Witness ==
    /\ pc = "loop"
    /\ current_time >= 1
    /\ DispatchedAt(current_time - 1) # {}
    /\ LET roster == witches_by_shift[get_witch_shift(current_time - 1)]
       IN  /\ Len(roster) >= 2
           /\ Len(witch_schedules[roster[1]]) >= 2
           /\ witch_schedules[roster[2]] = <<>>
           /\ transport_tickets[Len(transport_tickets)].courier_id = roster[1]
\* ---------------------------------------------------------------- C27
\* the drains dispatch registered together with ticket k
DrainsOf(k) ==
    {i \in 1..Len(ledger) : ledger[i].by_dispatch /\ ledger[i].ticket_no = k}

\* the commitments, over all couriers, that have the cauldron and the
\* collection window of ticket k
CommitmentsFor(k) ==
    {p \in {q \in (DOMAIN witch_schedules) \X (1..Len(transport_tickets)) :
                q[2] <= Len(witch_schedules[q[1]])} :
        LET event == witch_schedules[p[1]][p[2]]
        IN  /\ event.cauldron_id = transport_tickets[k].cauldron_id
            /\ event.collection_start
                   = transport_tickets[k].collection_start_timestamp
            /\ event.collection_end = transport_tickets[k].collection_timestamp}

\* the sum of collections_per_cauldron
RECURSIVE TotalCollections(_, _)
TotalCollections(colls, S) ==
    IF S = {} THEN 0
    ELSE LET c == CHOOSE x \in S : TRUE
         IN  colls[c] + TotalCollections(colls, S \ {c})

\* C27: every dispatch has appended exactly one ticket, one drain and one
\* courier commitment that agree: same cauldron, same collection window,
\* the courier of the ticket owns the commitment, and departure <=
\* collection_start < collection_end < unload_complete; after every tick the
\* number of tickets equals the number of commitments of all couriers, the
\* number of drains dispatch has registered and the sum of the per-cauldron
\* collection counters
C27_DispatchRecordsAgree ==
    script = "regenerate_all_data" =>
        /\ \A k \in 1..Len(transport_tickets) :
               /\ Cardinality(DrainsOf(k)) = 1
               /\ \A i \in DrainsOf(k) :
                      /\ ledger[i].cauldron_id = transport_tickets[k].cauldron_id
                      /\ ledger[i].start
                             = transport_tickets[k].collection_start_timestamp
                      /\ ledger[i].end = transport_tickets[k].collection_timestamp
               /\ Cardinality(CommitmentsFor(k)) = 1
               /\ \A p \in CommitmentsFor(k) :
                      LET event == witch_schedules[p[1]][p[2]]
                      IN  /\ p[1] = transport_tickets[k].courier_id
                          /\ event.witch_id = p[1]
                          /\ event.departure_from_market <= event.collection_start
                          /\ event.collection_start < event.collection_end
                          /\ event.collection_end < event.unload_complete
        /\ Len(transport_tickets) = Commitments(witch_schedules)
        /\ Len(transport_tickets) = DispatchedDrains(ledger)
        /\ Len(transport_tickets)
               = TotalCollections(collections_per_cauldron, Nodes)

\* a run with a travel time to its cauldrons has dispatched three times, to
\* two cauldrons and two couriers
C27_Witness ==
    /\ Len(transport_tickets) >= 3
    /\ \E k \in 1..Len(transport_tickets) :
           \E p \in CommitmentsFor(k) :
               witch_schedules[p[1]][p[2]].departure_from_market
                   < witch_schedules[p[1]][p[2]].collection_start
    /\ \E j, k \in 1..Len(transport_tickets) :
           transport_tickets[j].cauldron_id # transport_tickets[k].cauldron_id
    /\ \E w \in DOMAIN witch_schedules : Len(witch_schedules[w]) >= 2
\* ---------------------------------------------------------------- C28
\* the extractions dispatched for cauldron c
DispatchesOf(c) ==
    {i \in 1..Len(ledger) : ledger[i].by_dispatch /\ ledger[i].cauldron_id = c}

\* C28: from the tick that dispatches a cauldron until the end time of that
\* collection the cauldron is marked in cauldrons_needing_collection (with
\* that end time) and no other extraction is dispatched for it; so any two
\* tickets for one cauldron have collection windows that do not overlap
\* and are at least 30 minutes apart
C28_OneExtractionAtATime ==
    script = "regenerate_all_data" =>
        /\ pc = "loop" =>
               \A c \in Nodes :
                   /\ c \in DOMAIN cauldrons_needing_collection
                          <=> MarkedAt(c, current_time)
                   /\ c \in DOMAIN cauldrons_needing_collection =>
                          \E i \in DispatchesOf(c) :
                              ledger[i].end = cauldrons_needing_collection[c]
        /\ \A c \in Nodes :
               \A i, j \in DispatchesOf(c) :
                   i # j => ~(/\ ledger[i].created_at <= ledger[j].created_at
                              /\ ledger[j].created_at <= ledger[i].end)
        /\ \A j, k \in 1..Len(transport_tickets) :
               (j # k /\ transport_tickets[j].cauldron_id
                            = transport_tickets[k].cauldron_id)
               => ~WithinGap(transport_tickets[j].collection_start_timestamp,
                             transport_tickets[j].collection_timestamp,
                             transport_tickets[k].collection_start_timestamp,
                             transport_tickets[k].collection_timestamp)

\* a cauldron was dispatched again in the first tick after the end of its
\* previous collection, and is marked for the new one
C28_Witness ==
    /\ pc = "loop"
    /\ \E c \in DOMAIN cauldrons_needing_collection :
           \E i, j \in DispatchesOf(c) :
               /\ ledger[j].created_at = ledger[i].end + 1
               /\ cauldrons_needing_collection[c] = ledger[j].end
\* ---------------------------------------------------------------- C29
\* minute_levels[c] after the fill step of the next tick
FilledLevel(c) ==
    Round2(FillLevel(c, current_levels[c],
                     c \in BeingDrained(pending_drains, current_time),
                     noise_draw))

\* the entries of pending_drains that the next tick applies to cauldron c
AppliedNow(c) ==
    {i \in ActiveDrains(c, current_time) :
        pending_drains[i].duration > 0 /\ pending_drains[i].net_drain > 0}

\* a drain that dispatch registers in a tick is not applied in that tick
NewDrainsUnapplied ==
    \A i \in (Len(ledger) + 1)..Len(ledger') :
        /\ ledger'[i].created_at = current_time
        /\ ledger'[i].n_applied = 0

C30_AtCapacitySelected ==
    (/\ pc = "loop"
     /\ current_time <= total_minutes - 1
     /\ \E c \in Unmarked : AtCapacity(c))
    => \A top \in SelectedNow : AtCapacity(top.cauldron_id)
\* ---------------------------------------------------------------- C31
\* fractions of max_volume (per mille) on both sides of the comparisons of
\* the priority computation
ProbePerMille ==
    {0, 3, 25, 30, 66, 120, 300, 490, 500, 550, 600, 700, 990, 1000}

\* levels of cauldron c at those fractions
ProbeLevels(c) == {Frac(cauldrons[c], p) : p \in ProbePerMille}

\* C31: for a fixed cauldron, tick and collection count the priority is
\* non-decreasing in the level, for every cauldron including cauldron_009
\* before and after the midpoint
C31_ScoreMonotoneInLevel ==
    (pc = "loop" /\ current_time <= total_minutes - 1) =>
        \A c \in Nodes :
            \A l1, l2 \in ProbeLevels(c) :
                l1 <= l2 =>
                    Priority(c, l1, collections_per_cauldron, current_time)
                        <= Priority(c, l2, collections_per_cauldron, current_time)
\* ---------------------------------------------------------------- C32
\* C32: whenever some candidate of a tick has zero prior collections and a
\* priority of at least 60, the cauldron selected in that tick
\* (candidates_for_collection[0]) has zero prior collections, and so has
\* every cauldron the tick dispatches a courier to
C32_ZeroCollectionsSelected ==
    [][(/\ pc = "loop"
        /\ current_time <= total_minutes - 1
        /\ \E c \in Unmarked :
               collections_per_cauldron[c] = 0 /\ Score(c) >= 60)
       => (/\ \A top \in SelectedNow :
                  collections_per_cauldron[top.cauldron_id] = 0
           /\ \A i \in (Len(ledger) + 1)..Len(ledger') :
                  collections_per_cauldron[ledger'[i].cauldron_id] = 0)]_vars

\* the last tick dispatched a courier to a cauldron without prior
\* collections although an unmarked cauldron with prior collections had a
\* higher priority
C32_Witness ==
    /\ pc = "loop"
    /\ current_time >= 1
    /\ \E i \in DispatchedAt(current_time - 1) :
           \E a \in Nodes :
               LET t == current_time - 1
                   c == ledger[i].cauldron_id
                   colls == CollectionsBefore(t)
               IN  /\ colls[c] = 0
                   /\ colls[a] > 0
                   /\ ~MarkedAt(a, t)
                   /\ Priority(a, historical_data[t + 1][a], colls, t)
                          > Priority(c, historical_data[t + 1][c], colls, t)
                   /\ Priority(c, historical_data[t + 1][c], colls, t) >= 60
\* ---------------------------------------------------------------- C33
\* C33: a ticket carries _actual_amount_collected if and only if it is
\* flagged is_suspicious, and the amount_collected of a flagged ticket lies
\* between 0.75 and 0.92 times the gross amount of its extraction, each
\* rounded to two decimals
C33_ShadowIffFlagged ==
    \A k \in 1..Len(transport_tickets) :
        LET ticket == transport_tickets[k]
            gross == EventOf(k).gross_drain
        IN  /\ ("actual_amount_collected" \in DOMAIN ticket) <=> Flagged(ticket)
            /\ Flagged(ticket) =>
                   /\ Round2((gross * 750) \div 1000) <= ticket.amount_collected
                   /\ ticket.amount_collected <= Round2((gross * 920) \div 1000)

\* an unflagged ticket without the shadow field, and two flagged tickets
\* that report less than their shadow field, one at each end of the range
C33_Witness ==
    /\ \E k \in 1..Len(transport_tickets) :
           /\ ~Flagged(transport_tickets[k])
           /\ "actual_amount_collected" \notin DOMAIN transport_tickets[k]
    /\ \E j, k \in 1..Len(transport_tickets) :
           /\ Flagged(transport_tickets[j]) /\ Flagged(transport_tickets[k])
           /\ transport_tickets[j].amount_collected
                  = Round2((EventOf(j).gross_drain * 750) \div 1000)
           /\ transport_tickets[k].amount_collected
                  = Round2((EventOf(k).gross_drain * 920) \div 1000)
           /\ transport_tickets[j].amount_collected
                  < transport_tickets[j].actual_amount_collected
           /\ transport_tickets[k].amount_collected
                  < transport_tickets[k].actual_amount_collected
           /\ EventOf(j).gross_drain > 0
\* ---------------------------------------------------------------- C34
\* the pass of the injector that is being taken appends a record
AnomalyAccepted ==
    /\ pc = "inject"
    /\ Len(added_unreported_drains') = Len(added_unreported_drains) + 1

\* the record that pass appends
NewAnomaly == added_unreported_drains'[Len(added_unreported_drains')]

\* C34: a pass of the injector that accepts an anomaly changes only the
\* level of the anomaly's cauldron in the snapshots whose timestamp lies in
\* [drain_start, drain_end]: the levels of the other cauldrons, the
\* snapshots outside the window and the tickets stay as they were
C34_AnomalyFrame ==
    [][AnomalyAccepted
       => (/\ Len(historical_data') = Len(historical_data)
           /\ \A k \in 1..Len(historical_data) :
                  \A c \in Nodes :
                      (\/ c # NewAnomaly.cauldron_id
                       \/ k - 1 < NewAnomaly.drain_start_timestamp
                       \/ k - 1 > NewAnomaly.drain_end_timestamp)
                      => historical_data'[k][c] = historical_data[k][c]
           /\ transport_tickets' = transport_tickets)]_vars

\* an anomaly has been accepted in a run with two cauldrons and at least
\* one ticket; snapshots exist before and after its window, and the first
\* snapshot of the window is lower than the one before it
C34_Witness ==
    /\ pc \in {"inject", "done", "saved"}
    /\ Cardinality(Nodes) >= 2
    /\ Len(transport_tickets) >= 1
    /\ \E i \in 1..Len(added_unreported_drains) :
           LET d == added_unreported_drains[i]
           IN  /\ d.drain_start_timestamp >= 1
               /\ d.drain_end_timestamp + 2 <= Len(historical_data)
               /\ historical_data[d.drain_start_timestamp + 1][d.cauldron_id]
                      < historical_data[d.drain_start_timestamp][d.cauldron_id]
\* ---------------------------------------------------------------- C35
\* C35: a pass of the injector that appends no record, whatever the reason
\* of the rejection, leaves historical_data as it was before the pass
C35_RejectedLeavesHistory ==
    [][(/\ pc = "inject"
        /\ added_unreported_drains' = added_unreported_drains)
       => historical_data' = historical_data]_vars
\* ---------------------------------------------------------------- C36
\* the records the injector has added in this run
AddedInRun == Len(unreported_drains) - LoadedCount

\* C36: once planned, the target is 10, 11 or 12, and the injector adds at
\* most max(0, target - number of loaded records) records: it adds nothing
\* once the loaded and the added records together have reached the target
C36_AddsAtMostNeeded ==
    pc \in {"inject", "done", "saved", "output_error"} =>
        /\ target_unreported_count \in 10..12
        /\ AddedInRun <= Max(0, target_unreported_count - LoadedCount)
        /\ Len(added_unreported_drains) = LoadedCount + AddedInRun

\* the injector is over in a run that loaded records, added at least one
\* and stopped with exactly the target count
C36_Witness ==
    /\ InjectorOver
    /\ LoadedCount >= 1
    /\ AddedInRun >= 1
    /\ LoadedCount + AddedInRun = target_unreported_count
    /\ attempts <= max_attempts
\* ---------------------------------------------------------------- C37
\* the couriers of shift s (witches_by_shift)
OnShift(s) == {witches_by_shift[s][i] : i \in 1..Len(witches_by_shift[s])}

\* C37: the departure_from_market of every committed trip falls inside the
\* shift window of its courier (hours 0-8 for shift 1, 8-16 for shift 2,
\* 16-24 for shift 3)
C37_DepartureInShift ==
    \A w \in DOMAIN witch_schedules :
        \A i \in 1..Len(witch_schedules[w]) :
            w \in OnShift(get_witch_shift(
                              witch_schedules[w][i].departure_from_market))
\* ---------------------------------------------------------------- C38
\* C38: a pass of the selection loop of extend_data.py raises no error: a
\* candidate on a cauldron that has a selected drain is either skipped
\* (within 4 hours) or appended (further away), and the loop goes on or
\* ends normally
C38_SelectionNeverRaises ==
    [][pc = "ext_select"
       => /\ pc' \in {"ext_select", "ext_process"}
          /\ \/ selected_unreported' = selected_unreported
             \/ /\ Len(selected_unreported') = Len(selected_unreported) + 1
                /\ SubSeq(selected_unreported', 1, Len(selected_unreported))
                       = selected_unreported]_vars
\* ---------------------------------------------------------------- C39
\* C39: in extend_to_nov9.py and fix_nov8_9_data.py no unreported drain of
\* the run has a window [drain_start, drain_end] that overlaps the
\* collection window of a ticket the run generated for the same cauldron
C39_InjectedAwayFromTickets ==
    script \in {"extend_to_nov9", "fix_nov8_9_data"} =>
        \A i \in 1..Len(new_unreported_drains) :
            \A k \in 1..Len(new_tickets) :
                new_tickets[k].cauldron_id = new_unreported_drains[i].cauldron_id
                => \/ new_unreported_drains[i].drain_end_timestamp
                          < new_tickets[k].collection_start_timestamp
                   \/ new_tickets[k].collection_timestamp
                          < new_unreported_drains[i].drain_start_timestamp
====
